---- MODULE Spec2Model ----
(***************************************************************************)
(* A model of the Autophone device-farm controller (src/autophone.py) and  *)
(* of its pulse monitor (src/autophonepulsemonitor.py).                    *)
(*                                                                         *)
(* Python strings are sequences of one-character strings, so that lower(), *)
(* upper(), replace() and the substring test `in` are computed, not        *)
(* assumed.  The worker (worker.PhoneWorker), the build cache, the mailer  *)
(* and utils.* are collaborators outside src/: the model records the calls *)
(* made on them and draws their results from small sets.                   *)
(***************************************************************************)
EXTENDS Integers, Sequences, FiniteSets, TLC

(***************************************************************************)
(* Bounds of the model.                                                    *)
(***************************************************************************)
\* Distinct MAC addresses an operator may register.
MaxPhones == 2
\* Operator connections (one handler thread each, ThreadingMixIn).
MaxConns == 2
\* Build events (on_build with a URL, triggerjobs) per run of the process.
MaxEvents == 2
\* The same, where workers also die and are restarted.
MaxScanEvents == 1
\* Deaths of worker processes per run of the process.
MaxCrashes == 2

\* The Treeherder tiers go from 1 to MaxTier.
MaxTier == 3
\* A comment is the word it is about with up to MaxPad characters on each side.
MaxPad == 1
\* A platform name has from 1 to MaxPlatformLen characters.
MaxPlatformLen == 2
\* The constructor is given from 1 to MaxPlatforms platforms.
MaxPlatforms == 3
\* A build URL of the job-action path has MaxUrlLen characters.
MaxUrlLen == 3

\* The connections listen() opens in one run.
MaxConnects == 4

\* The pieces of text one connection receives, and the pieces of one recv().
MaxReceived == 6
MaxChunk == 2

(***************************************************************************)
(* Strings.                                                                *)
(***************************************************************************)
LowerChar(c) ==
    CASE c = "A" -> "a"
      [] c = "B" -> "b"
      [] c = "S" -> "s"
      [] OTHER -> c

UpperChar(c) ==
    CASE c = "a" -> "A"
      [] c = "b" -> "B"
      [] c = "s" -> "S"
      [] OTHER -> c

\* str.lower()
Lower(s) == [i \in 1..Len(s) |-> LowerChar(s[i])]

\* str.upper()
Upper(s) == [i \in 1..Len(s) |-> UpperChar(s[i])]

\* str.replace(a, b) for one-character a and b
Replace(s, a, b) == [i \in 1..Len(s) |-> IF s[i] = a THEN b ELSE s[i]]

\* needle in hay (Python's substring test)
Contains(hay, needle) ==
    \E i \in 0..(Len(hay) - Len(needle)) :
        \A j \in 1..Len(needle) : hay[i + j] = needle[j]

DigitChars == <<"1", "2", "3", "4", "5", "6", "7", "8", "9">>

IsDigit(c) == c = "0" \/ \E d \in 1..9 : DigitChars[d] = c

DigitValue(c) == IF c = "0" THEN 0 ELSE CHOOSE d \in 1..9 : DigitChars[d] = c

\* int(s) succeeds exactly on a non-empty string of digits
IsNumeric(s) == Len(s) > 0 /\ \A i \in 1..Len(s) : IsDigit(s[i])

RECURSIVE ParseInt(_)
ParseInt(s) ==
    IF Len(s) = 0 THEN 0
    ELSE 10 * ParseInt(SubSeq(s, 1, Len(s) - 1)) + DigitValue(s[Len(s)])

(***************************************************************************)
(* Inputs.                                                                 *)
(***************************************************************************)
\* The forms in which an operator may type the name (MAC address) of phone k.
NameForms(k) ==
    { <<"A", ":", DigitChars[k]>>, <<"a", ":", DigitChars[k]>>, <<"a", "_", DigitChars[k]>> }

Names == UNION {NameForms(k) : k \in 1..MaxPhones}

Hardware == <<"f">>

\* The form fields of a register command (name, hardware, pool, ipaddr, cmdport, os).
RegisterParams ==
    { [name |-> n, hardware |-> Hardware, pool |-> <<"s", n[3]>>,
       ipaddr |-> <<"1", ".", n[3]>>, cmdport |-> <<"2", "0">>, os |-> <<"b">>] : n \in Names }

BuildUrls == {"u1"}

\* What zipfile makes of the archive the build cache returned.
ArchiveKinds == {"good", "badzip"}

\* Messages the pulse build monitor hands to on_build.
BuildMsgs == {[buildurl |-> u] : u \in BuildUrls} \cup {[tree |-> "mozilla-central"]}

\* Threads: one handler thread per operator connection, the pulse monitor's
\* callback thread, and the main thread running worker_msg_loop.
Conns == {<<"conn", k>> : k \in 1..MaxConns}

PulseThread == <<"pulse", 0>>

MainThread == <<"main", 0>>

NoThread == <<"none", 0>>

FanoutThreads == Conns \cup {PulseThread}

Threads == FanoutThreads \cup {MainThread}

\* Python's None, as the job build_job returns for a bad archive.
None == [kind |-> "None"]

\* phonetest.PhoneTestMessage states passed to PhoneWorker.start; DEFAULT stands
\* for start() called without an argument.
DISABLED == "DISABLED"

DISCONNECTED == "DISCONNECTED"

DEFAULT == "DEFAULT"

VARIABLES
    proc,             \* "down" or "running": whether an AutoPhone process exists
    cache,            \* the roster file self._cache on disk
    phone_workers,    \* self.phone_workers: phoneid -> worker
    next_worker_num,  \* self._next_worker_num
    worker_lock,      \* the thread holding self.worker_lock, or NoThread
    cmd_lock,         \* the thread holding self.cmd_lock, or NoThread
    pc,               \* each thread's position
    local,            \* each thread's local variables
    events,           \* build events accepted in this run of the process
    scan_disabled,    \* history: phones restarted DISABLED by the scan, not enabled since
    last_ops,         \* history: the calls the latest step made on collaborators
    persisted,        \* history: the phone_cfgs handed to the latest write of the roster
    typed_ids,        \* history: the ids, as typed, of the phones registered in this run
    ctl,              \* self._stop, the command server, and what stop() has done
    monitor,          \* the AutophonePulseMonitor as its constructor leaves it
    message,          \* the pulse message in hand, with what the services answer for it
    callbacks,        \* the callbacks the monitor has invoked for the message
    pm_pc,            \* the pulse listener's position
    pm_local,         \* the handler's locals when it returned
    listener          \* listen(): its position, connection and restart flag

\* The controller's variables and the pulse monitor's.
ap_vars == <<proc, cache, phone_workers, next_worker_num, worker_lock, cmd_lock,
             pc, local, events, scan_disabled, last_ops, persisted, typed_ids, ctl>>

pm_vars == <<monitor, message, callbacks, pm_pc, pm_local, listener>>

vars == <<ap_vars, pm_vars>>

(***************************************************************************)
(* Calls on collaborators, as recorded in last_ops.                        *)
(***************************************************************************)
Op(name, phone, arg) == [op |-> name, phone |-> phone, arg |-> arg]

NoPhone == <<>>

(***************************************************************************)
(* The roster file: json.dumps / json.loads.  A JSON text is modelled by   *)
(* its parse: valid or not, and the objects of the list under "phones",    *)
(* each member a JSON string or a JSON number.                             *)
(* A Python 2 str and the unicode that json.loads returns for it hold the  *)
(* same characters and compare and hash equal, so both are the same        *)
(* sequence of characters here.                                            *)
(***************************************************************************)
JsonString(s) == [t |-> "string", v |-> s]

JsonNumber(n) == [t |-> "number", v |-> n]

\* The fields of a phone_cfg that hold an int; the others hold a str.
IntFields == {"sutcmdport", "debug"}

\* json.dumps of one phone_cfg dict
DumpsCfg(cfg) ==
    [k \in DOMAIN cfg |-> IF k \in IntFields THEN JsonNumber(cfg[k]) ELSE JsonString(cfg[k])]

\* A loader that folds the case of the strings it reads.
LoadsCfgFolded(obj) ==
    [k \in DOMAIN obj |-> IF obj[k].t = "string" THEN Lower(obj[k].v) ELSE obj[k].v]

\* json.loads of one object of the "phones" list
LoadsCfg(obj) == [k \in DOMAIN obj |-> obj[k].v]

\* The file does not exist.
NoFile == [exists |-> FALSE, valid |-> FALSE, phones |-> <<>>]

\* open(self._cache, 'wb'): an empty file, which is no JSON text.
EmptyFile == [exists |-> TRUE, valid |-> FALSE, phones |-> <<>>]

\* The order in which a dict lists its keys (keys(), values(), iteritems()): a
\* fixed order Python derives from the keys' hashes, here some fixed order.
RECURSIVE DictOrder(_)
DictOrder(keys) ==
    IF keys = {} THEN <<>>
    ELSE LET k == CHOOSE x \in keys : TRUE
         IN  <<k>> \o DictOrder(keys \ {k})

\* A roster that leaves out the first worker the dict lists.
RosterButFirst(workers) ==
    LET q == DictOrder(DOMAIN workers)
    IN  [i \in 1..(Len(q) - 1) |-> workers[q[i + 1]].phone_cfg]

\* cache['phones'] = [x.phone_cfg for x in self.phone_workers.values()]
Roster(workers) ==
    LET q == DictOrder(DOMAIN workers)
    IN  [i \in 1..Len(q) |-> workers[q[i]].phone_cfg]

\* update_phone_cache: the file holds json.dumps(cache).
UpdatePhoneCache(workers) ==
    LET l == Roster(workers)
    IN  [exists |-> TRUE, valid |-> TRUE, phones |-> [i \in 1..Len(l) |-> DumpsCfg(l[i])]]

\* json.loads(f.read()), {} on ValueError, then cache.get('phones', []).
CachedPhones(file) ==
    IF file.valid THEN [i \in 1..Len(file.phones) |-> LoadsCfg(file.phones[i])] ELSE <<>>

(***************************************************************************)
(* The worker registry.                                                    *)
(***************************************************************************)
\* PhoneWorker(num, ..., phone_cfg, ...) followed by worker.start().
NewWorker(num, phone_cfg) ==
    [num |-> num, phone_cfg |-> phone_cfg, alive |-> TRUE, initial_state |-> DEFAULT,
     crashes |-> 0, inbox |-> <<>>]

\* register_phone: the registry after phone_cfg is registered with worker number num.
RegisterPhone(workers, num, phone_cfg) ==
    [p \in DOMAIN workers \cup {phone_cfg.phoneid} |->
        IF p = phone_cfg.phoneid THEN NewWorker(num, phone_cfg) ELSE workers[p]]

\* read_cache: clear the registry, then register_phone for each cached phone_cfg in
\* the list's order, drawing worker numbers from `num` on.
RECURSIVE RegisterAll(_, _, _)
RegisterAll(workers, num, cfgs) ==
    IF Len(cfgs) = 0 THEN workers
    ELSE RegisterAll(RegisterPhone(workers, num, Head(cfgs)), num + 1, Tail(cfgs))

ReadCache(file) == RegisterAll(<<>>, 0, CachedPhones(file))

\* The register_phone calls of read_cache, one for each cached phone_cfg.
RegisterOps(cfgs) == [i \in 1..Len(cfgs) |-> Op("register_phone", cfgs[i].phoneid, "")]

\* A reset that leaves out the first worker the dict lists.
ResetPhonesButFirst(workers) ==
    LET q == DictOrder(DOMAIN workers)
    IN  [i \in 1..(Len(q) - 1) |-> Op("reboot", q[i + 1], "")]

\* reset_phones: phone.reboot() for each worker of self.phone_workers.iteritems()
ResetPhones(workers) ==
    LET q == DictOrder(DOMAIN workers)
    IN  [i \in 1..Len(q) |-> Op("reboot", q[i], "")]

\* urlparse.parse_qs(data.lower()): every field in lower case.
ParseQs(params) == [k \in DOMAIN params |-> Lower(params[k])]

\* macaddr = data['name'][0].replace(':', '_'); phoneid = '%s_%s' % (macaddr, hardware)
PhoneIdOf(data) == Replace(data.name, ":", "_") \o <<"_">> \o data.hardware

\* A register command that takes every phone for a new one.
UnknownPhoneAlways(phoneid, workers) == TRUE

\* phoneid not in self.phone_workers
UnknownPhone(phoneid, workers) == phoneid \notin DOMAIN workers

\* The phone_cfg register_cmd builds.
PhoneCfgOf(data) ==
    [phoneid |-> PhoneIdOf(data),
     serial |-> Upper(data.pool),
     ip |-> data.ipaddr,
     sutcmdport |-> ParseInt(data.cmdport),
     machinetype |-> data.hardware,
     osver |-> data.os,
     debug |-> 3]

\* A lookup that knows the workers by their phoneid only.
FindWorkersByPhoneid(workers, phoneid) ==
    {p \in DOMAIN workers : workers[p].phone_cfg.phoneid = phoneid}

\* The worker a disable/enable/debug/ping command names: the first in the dict's
\* order whose serial or phoneid equals the parameter.
FindWorkers(workers, phoneid) ==
    {p \in DOMAIN workers :
        workers[p].phone_cfg.serial = phoneid \/ workers[p].phone_cfg.phoneid = phoneid}

(***************************************************************************)
(* Building a job.                                                         *)
(***************************************************************************)
\* get_build: the archive in the directory it returns. A BadZipfile on the first
\* fetch forces one re-download, whose archive is returned unchecked.
GetBuild(first, forced) == IF first = "badzip" THEN forced ELSE first

\* build_job: None for a bad archive, else the job.
BuildJob(url, archive) ==
    IF archive = "badzip" THEN None
    ELSE [kind |-> "job", cache_build_dir |-> url, bldtype |-> "opt"]

\* Archives that are zip files but whose application.ini is missing, or lacks
\* the App section or one of the keys build_job reads.
IniFaults ==
    {"no_application.ini", "no_App", "no_SourceStamp", "no_Version",
     "no_SourceRepository", "no_BuildID"}

\* build_job raises: apkfile.extract gives KeyError for a missing member,
\* cfg.get gives NoSectionError or NoOptionError; only BadZipfile is caught.
BuildJobRaises(archive) == archive \in IniFaults

\* The directory of tempfile.mkdtemp() when build_job is left: shutil.rmtree is
\* called in the BadZipfile handler and before return job, and nowhere else.
Tmpdir(archive) == IF BuildJobRaises(archive) THEN "left" ELSE "removed"

\* A fan-out that leaves out the first worker the dict lists.
FanoutTargetsButFirst(workers) ==
    LET q == DictOrder(DOMAIN workers) IN IF q = <<>> THEN q ELSE Tail(q)

\* A fan-out that passes over the workers started in the DISABLED state.
FanoutTargetsEnabled(workers) ==
    DictOrder({p \in DOMAIN workers : workers[p].initial_state # DISABLED})

\* start_tests: for p in self.phone_workers.values()
FanoutTargets(workers) == DictOrder(DOMAIN workers)

\* p.add_job(job) on worker p
AddJobTo(workers, p, job) ==
    [workers EXCEPT ![p].inbox = Append(@, job)]

(***************************************************************************)
(* The crash policy.                                                       *)
(***************************************************************************)
\* worker.crashes.too_many_crashes(): the crashes within the window reach the limit.
CrashLimit == 2

TooManyCrashes(w) == w.crashes >= CrashLimit

\* check_for_dead_workers: the state a dead worker is restarted in.
InitialState(too_many) == IF too_many THEN DISABLED ELSE DISCONNECTED

(***************************************************************************)
(* The state of the controller.                                            *)
(***************************************************************************)
NoWorkers == <<>>

\* No AutoPhone object: no stop flag, no command server.
NoCtl == [stop |-> FALSE, server |-> "none", cause |-> "none", log |-> <<>>, returned |-> FALSE]

\* After __init__ and run(): self._stop is False and the server thread serves.
\* cause, log and returned are history: why stop() was called, the calls it has
\* made in order, and whether it has returned.
Serving == [NoCtl EXCEPT !.server = "serving"]

\* The id an operator forms from the name and the hardware as typed.
TypedId(params) == Replace(params.name, ":", "_") \o <<"_">> \o params.hardware

\* Of the main thread, msg is the phoneid of worker_msg_loop's msg, NoPhone while
\* the name is not bound.
\* Of a connection handler, local holds also handle()'s buffer and (history)
\* the data received on the connection, the lines routed and the replies sent.
\* A thread's locals: the job it fans out, the workers start_tests still has to
\* visit, the reply of route_cmd, and (history) the registry's phoneids when
\* start_tests listed the workers and the add_job calls it has made since.
NoLocal ==
    [job |-> None, todo |-> <<>>, response |-> "", snap |-> {}, given |-> <<>>,
     tmpdir |-> "none", buffer |-> <<>>, received |-> <<>>, routed |-> <<>>, sent |-> <<>>,
     msg |-> NoPhone]

\* given, with one more add_job call on p counted.
Given(given, p) ==
    [q \in DOMAIN given \cup {p} |->
        IF q = p THEN (IF p \in DOMAIN given THEN given[p] + 1 ELSE 1) ELSE given[q]]

Down == [t \in Threads |-> "down"]

\* After AutoPhone.run(): handlers wait for a line, the pulse thread for a
\* message, the main thread is at the head of worker_msg_loop.
Started ==
    [t \in Threads |->
        IF t \in Conns THEN "recv" ELSE IF t = PulseThread THEN "idle" ELSE "loop"]

NoMonitor == [constructed |-> FALSE]

NoMessage == [kind |-> "none"]

\* The locals of a handler: detected_platform, if it was bound.
NoLocals == [bound |-> FALSE, detected_platform |-> <<>>]

\* listen() is not running: connection = None, restart = True are its first
\* assignments.  opened and released count (history) the connections opened and
\* the connection.release() calls; last is what the latest step met.
NoListener ==
    [pc |-> "off", connection |-> "None", restart |-> TRUE, opened |-> 0,
     released |-> 0, last |-> "none"]

\* No pulse monitor is modelled beside the controller.
InitMonitorOff ==
    /\ monitor = NoMonitor
    /\ message = NoMessage
    /\ callbacks = <<>>
    /\ pm_pc = "off"
    /\ pm_local = NoLocals
    /\ listener = NoListener

InitController ==
    /\ proc = "down"
    /\ cache = NoFile
    /\ phone_workers = NoWorkers
    /\ next_worker_num = 0
    /\ worker_lock = NoThread
    /\ cmd_lock = NoThread
    /\ pc = Down
    /\ local = [t \in Threads |-> NoLocal]
    /\ events = 0
    /\ scan_disabled = {}
    /\ last_ops = <<>>
    /\ persisted = {}
    /\ typed_ids = {}
    /\ ctl = NoCtl

Init == InitController /\ InitMonitorOff

(***************************************************************************)
(* The life of the process.                                                *)
(***************************************************************************)
\* AutoPhone.__init__ and run(): the roster file is created empty if absent,
\* removed if clear_cache, and otherwise read, after which reset_phones reboots
\* every worker if reboot_phones.
Construct(clear_cache, reboot_phones) ==
    /\ proc = "down"
    /\ proc' = "running"
    /\ IF ~cache.exists
       THEN /\ cache' = EmptyFile
            /\ persisted' = {}
            /\ phone_workers' = NoWorkers
            /\ next_worker_num' = 0
            /\ last_ops' = <<Op("create_cache", NoPhone, "")>>
       ELSE IF clear_cache
       THEN /\ cache' = NoFile
            /\ persisted' = {}
            /\ phone_workers' = NoWorkers
            /\ next_worker_num' = 0
            /\ last_ops' = <<Op("remove_cache", NoPhone, "")>>
       ELSE /\ UNCHANGED <<cache, persisted>>
            /\ phone_workers' = ReadCache(cache)
            /\ next_worker_num' = Len(CachedPhones(cache))
            /\ last_ops' = <<Op("read_cache", NoPhone, "")>> \o
                  RegisterOps(CachedPhones(cache)) \o
                  (IF reboot_phones THEN ResetPhones(phone_workers') ELSE <<>>)
    /\ pc' = Started
    /\ local' = [t \in Threads |-> NoLocal]
    /\ events' = 0
    /\ scan_disabled' = {}
    /\ typed_ids' = {}
    /\ ctl' = Serving
    /\ UNCHANGED <<worker_lock, cmd_lock, pm_vars>>

\* The process ends (stopped or killed): only the roster file remains.
Terminate ==
    /\ proc = "running"
    /\ proc' = "down"
    /\ phone_workers' = NoWorkers
    /\ next_worker_num' = 0
    /\ worker_lock' = NoThread
    /\ cmd_lock' = NoThread
    /\ pc' = Down
    /\ local' = [t \in Threads |-> NoLocal]
    /\ events' = 0
    /\ scan_disabled' = {}
    /\ last_ops' = <<>>
    /\ typed_ids' = {}
    /\ ctl' = NoCtl
    /\ UNCHANGED <<cache, persisted, pm_vars>>

(***************************************************************************)
(* route_cmd.  A handler thread takes cmd_lock, runs the command and, in a *)
(* later step, releases the lock and sends the reply.                      *)
(***************************************************************************)
\* A route_cmd that enters without waiting for the lock.
EnterUnlocked(c) ==
    /\ proc = "running"
    /\ pc[c] = "recv"
    /\ cmd_lock' = c

\* route_cmd is entered: the lock is free and taken.
Enter(c) ==
    /\ proc = "running"
    /\ pc[c] = "recv"
    /\ cmd_lock = NoThread
    /\ cmd_lock' = c

\* register <urlencoded>: register_cmd
CmdRegister(c, params) ==
    LET data == ParseQs(params)
        phoneid == PhoneIdOf(data)
    IN  /\ Enter(c)
        /\ IF UnknownPhone(phoneid, phone_workers)
           THEN /\ phone_workers' = RegisterPhone(phone_workers, next_worker_num, PhoneCfgOf(data))
                /\ next_worker_num' = next_worker_num + 1
                /\ cache' = UpdatePhoneCache(phone_workers')
                /\ persisted' = {phone_workers'[p].phone_cfg : p \in DOMAIN phone_workers'}
                /\ last_ops' = <<Op("register_cmd", phoneid, ""), Op("PhoneWorker", phoneid, ""),
                                 Op("start", phoneid, DEFAULT), Op("write_cache", NoPhone, "")>>
           ELSE /\ last_ops' = <<Op("register_cmd", phoneid, "")>>
                /\ UNCHANGED <<phone_workers, next_worker_num, cache, persisted>>
        /\ pc' = [pc EXCEPT ![c] = "release_cmd"]
        /\ local' = [local EXCEPT ![c].response = "ok"]
        /\ typed_ids' = typed_ids \cup {TypedId(params)}
        /\ UNCHANGED <<proc, worker_lock, events, scan_disabled, ctl, pm_vars>>

\* triggerjobs <url>: trigger_jobs builds the job and goes on to start_tests.
\* What build_job raises is caught nowhere: it leaves route_cmd and handle(),
\* and the handler thread ends.
CmdTriggerJobs(c, url, first, forced) ==
    /\ Enter(c)
    /\ events' = events + 1
    /\ IF BuildJobRaises(GetBuild(first, forced))
       THEN /\ local' = [local EXCEPT ![c].tmpdir = Tmpdir(GetBuild(first, forced))]
            /\ pc' = [pc EXCEPT ![c] = "raised"]
       ELSE /\ local' = [local EXCEPT ![c].job = BuildJob(url, GetBuild(first, forced)),
                                      ![c].response = "ok",
                                      ![c].tmpdir = Tmpdir(GetBuild(first, forced))]
            /\ pc' = [pc EXCEPT ![c] = "start_tests"]
    /\ last_ops' = <<Op("trigger_jobs", NoPhone, url)>>
    /\ UNCHANGED <<proc, cache, persisted, typed_ids, ctl, phone_workers, next_worker_num, worker_lock,
                   scan_disabled, pm_vars>>

PhoneVerbs == {"disable", "enable", "debug", "ping"}

\* What an operator may type after disable, enable, debug or ping: the id formed
\* from the name as typed, from the name in lower case, or the serial.
PhoneParams ==
    UNION {{Replace(n, ":", "_") \o <<"_">> \o Hardware,
            Lower(Replace(n, ":", "_")) \o <<"_">> \o Hardware,
            <<"S", n[3]>>} : n \in Names}

\* disable/enable/debug/ping <phoneid-or-serial>
CmdPhoneVerb(c, verb, phoneid) ==
    /\ Enter(c)
    /\ IF FindWorkers(phone_workers, phoneid) # {}
       THEN \E w \in FindWorkers(phone_workers, phoneid) :
              /\ cache' = UpdatePhoneCache(phone_workers)
              /\ persisted' = {phone_workers[p].phone_cfg : p \in DOMAIN phone_workers}
              /\ scan_disabled' = IF verb = "enable" THEN scan_disabled \ {w} ELSE scan_disabled
              /\ last_ops' = <<Op(verb, w, ""), Op("write_cache", NoPhone, "")>>
              /\ local' = [local EXCEPT ![c].response = "ok"]
       ELSE /\ last_ops' = <<>>
            /\ local' = [local EXCEPT ![c].response = "error: phone not found"]
            /\ UNCHANGED <<cache, persisted, scan_disabled>>
    /\ pc' = [pc EXCEPT ![c] = "release_cmd"]
    /\ UNCHANGED <<proc, phone_workers, next_worker_num, worker_lock, events, typed_ids, ctl,
                   pm_vars>>

\* disable/enable/debug/ping on a registered phone, where the worker's verb
\* raises: the exception leaves route_cmd before update_phone_cache and before
\* self.cmd_lock.release().
CmdPhoneVerbRaises(c, verb, phoneid) ==
    /\ Enter(c)
    /\ \E w \in FindWorkers(phone_workers, phoneid) :
         last_ops' = <<Op(verb, w, "raised")>>
    /\ pc' = [pc EXCEPT ![c] = "raised"]
    /\ UNCHANGED <<proc, cache, persisted, scan_disabled, local, phone_workers, next_worker_num,
                   worker_lock, events, typed_ids, ctl, pm_vars>>

OtherVerbs == {"log", "status", "bogus"}

\* log, status, and a verb route_cmd does not know
CmdOther(c, verb) ==
    /\ Enter(c)
    /\ local' = [local EXCEPT ![c].response =
                    IF verb = "log" THEN "ok"
                    ELSE IF verb = "status" THEN "status ok"
                    ELSE "Unknown command"]
    /\ pc' = [pc EXCEPT ![c] = "release_cmd"]
    /\ last_ops' = <<>>
    /\ UNCHANGED <<proc, cache, persisted, typed_ids, ctl, phone_workers, next_worker_num, worker_lock, events,
                   scan_disabled, pm_vars>>

\* self.cmd_lock.release(); return response, which the handler sends.
RouteCmdRelease(c) ==
    /\ pc[c] = "release_cmd"
    /\ cmd_lock' = NoThread
    /\ pc' = [pc EXCEPT ![c] = "recv"]
    /\ local' = [local EXCEPT ![c] = NoLocal]
    /\ last_ops' = <<>>
    /\ UNCHANGED <<proc, cache, persisted, typed_ids, ctl, phone_workers, next_worker_num, worker_lock, events,
                   scan_disabled, pm_vars>>

(***************************************************************************)
(* on_build and start_tests.                                               *)
(***************************************************************************)
\* on_build(msg) on the pulse thread: a message without a build URL is ignored.
OnBuild(msg, first, forced) ==
    /\ proc = "running"
    /\ pc[PulseThread] = "idle"
    /\ IF "buildurl" \in DOMAIN msg
       THEN /\ events' = events + 1
            /\ local' = [local EXCEPT ![PulseThread].job =
                            BuildJob(msg.buildurl, GetBuild(first, forced))]
            /\ pc' = [pc EXCEPT ![PulseThread] = "start_tests"]
            /\ last_ops' = <<Op("on_build", NoPhone, msg.buildurl)>>
       ELSE /\ last_ops' = <<Op("on_build", NoPhone, "")>>
            /\ UNCHANGED <<events, local, pc>>
    /\ UNCHANGED <<proc, cache, persisted, typed_ids, ctl, phone_workers, next_worker_num, worker_lock, cmd_lock,
                   scan_disabled, pm_vars>>

\* A lock that lets every caller in.
AcquirableAlways(lock) == TRUE

\* lock.acquire() returns only when no thread holds the lock.
Acquirable(lock) == lock = NoThread

\* start_tests: self.worker_lock.acquire(), then self.phone_workers.values()
StartTestsAcquire(t) ==
    /\ pc[t] = "start_tests"
    /\ Acquirable(worker_lock)
    /\ worker_lock' = t
    /\ local' = [local EXCEPT ![t].todo = FanoutTargets(phone_workers),
                              ![t].snap = DOMAIN phone_workers]
    /\ pc' = [pc EXCEPT ![t] = "add_job"]
    /\ last_ops' = <<>>
    /\ UNCHANGED <<proc, cache, persisted, typed_ids, ctl, phone_workers, next_worker_num, cmd_lock, events,
                   scan_disabled, pm_vars>>

\* start_tests: p.add_job(job) for the next worker of the list
AddJob(t) ==
    /\ pc[t] = "add_job"
    /\ local[t].todo # <<>>
    /\ phone_workers' = AddJobTo(phone_workers, Head(local[t].todo), local[t].job)
    /\ local' = [local EXCEPT ![t].todo = Tail(@), ![t].given = Given(@, Head(local[t].todo))]
    /\ last_ops' = <<>>
    /\ UNCHANGED <<proc, cache, persisted, typed_ids, ctl, next_worker_num, worker_lock, cmd_lock, pc, events,
                   scan_disabled, pm_vars>>

\* start_tests: p.add_job(job) raises on the next worker of the list.  Nothing in
\* start_tests, trigger_jobs, on_build or route_cmd catches it: the call ends
\* there, before self.worker_lock.release().
AddJobRaises(t) ==
    /\ pc[t] = "add_job"
    /\ local[t].todo # <<>>
    /\ pc' = [pc EXCEPT ![t] = "raised"]
    /\ last_ops' = <<Op("add_job", Head(local[t].todo), "raised")>>
    /\ UNCHANGED <<proc, cache, persisted, typed_ids, ctl, phone_workers, next_worker_num, worker_lock,
                   cmd_lock, local, events, scan_disabled, pm_vars>>

\* start_tests: self.worker_lock.release(), at the end of the list
StartTestsRelease(t) ==
    /\ pc[t] = "add_job"
    /\ local[t].todo = <<>>
    /\ worker_lock' = NoThread
    /\ pc' = [pc EXCEPT ![t] = IF t \in Conns THEN "release_cmd" ELSE "idle"]
    /\ local' = [local EXCEPT ![t] =
                    IF t \in Conns THEN [NoLocal EXCEPT !.response = local[t].response]
                    ELSE NoLocal]
    /\ last_ops' = <<>>
    /\ UNCHANGED <<proc, cache, persisted, typed_ids, ctl, phone_workers, next_worker_num, cmd_lock, events,
                   scan_disabled, pm_vars>>

(***************************************************************************)
(* worker_msg_loop and check_for_dead_workers on the main thread.          *)
(***************************************************************************)
\* while not self._stop: check_for_dead_workers() lists the phoneids.
LoopScan ==
    /\ proc = "running"
    /\ pc[MainThread] = "loop"
    /\ ~ctl.stop
    /\ pc' = [pc EXCEPT ![MainThread] = "scan"]
    /\ local' = [local EXCEPT ![MainThread].todo = DictOrder(DOMAIN phone_workers)]
    /\ last_ops' = <<>>
    /\ UNCHANGED <<proc, cache, persisted, typed_ids, ctl, phone_workers, next_worker_num, worker_lock, cmd_lock,
                   events, scan_disabled, pm_vars>>

\* A scan that counts a death twice.
RestartedCountedTwice(w) ==
    LET counted == [w EXCEPT !.crashes = @ + 2]
    IN  [counted EXCEPT !.alive = TRUE, !.initial_state = InitialState(TooManyCrashes(counted))]

\* A scan that asks the crash policy before it counts the death.
RestartedBeforeCount(w) ==
    [w EXCEPT !.crashes = @ + 1, !.alive = TRUE,
              !.initial_state = InitialState(TooManyCrashes(w))]

\* The worker as the scan leaves it: untouched if alive; else stopped, its crash
\* counted, and started again in the state the crash policy gives.
Restarted(w) ==
    LET counted == [w EXCEPT !.crashes = @ + 1]
    IN  [counted EXCEPT !.alive = TRUE, !.initial_state = InitialState(TooManyCrashes(counted))]

\* What self.mailer.send ends in: the mail is sent, socket.error is raised, or
\* another exception is (smtplib's are no socket.error).
MailResults == {"sent", "socket.error", "raised"}

\* check_for_dead_workers: one phoneid of the list.  Of what the mailer raises
\* only socket.error is caught; anything else leaves check_for_dead_workers and
\* worker_msg_loop.
ScanWorker(mail) ==
    LET p == Head(local[MainThread].todo)
    IN
    /\ pc[MainThread] = "scan"
    /\ local[MainThread].todo # <<>>
    /\ local' = [local EXCEPT ![MainThread].todo = Tail(@)]
    /\ pc' = IF ~phone_workers[p].alive /\ mail = "raised"
             THEN [pc EXCEPT ![MainThread] = "raised"] ELSE pc
    /\ IF ~phone_workers[p].alive
       THEN /\ phone_workers' = [phone_workers EXCEPT ![p] = Restarted(@)]
            /\ scan_disabled' =
                 IF phone_workers'[p].initial_state = DISABLED
                 THEN scan_disabled \cup {p} ELSE scan_disabled \ {p}
            /\ last_ops' = <<Op("stop", p, ""), Op("add_crash", p, ""),
                             Op("start", p, phone_workers'[p].initial_state),
                             Op("mail", p, mail)>>
       ELSE /\ mail = "sent"
            /\ last_ops' = <<>>
            /\ UNCHANGED <<phone_workers, scan_disabled>>
    /\ UNCHANGED <<proc, cache, persisted, typed_ids, ctl, next_worker_num, worker_lock, cmd_lock, events,
                   pm_vars>>

\* self.worker_msg_queue.get(timeout=5) raises Queue.Empty: continue
QueueGetEmpty ==
    /\ pc[MainThread] = "scan"
    /\ local[MainThread].todo = <<>>
    /\ pc' = [pc EXCEPT ![MainThread] = "loop"]
    /\ last_ops' = <<>>
    /\ UNCHANGED <<proc, cache, persisted, typed_ids, ctl, phone_workers, next_worker_num, worker_lock, cmd_lock,
                   local, events, scan_disabled, pm_vars>>

\* msg = self.worker_msg_queue.get(timeout=5) returns a message, and
\* self.phone_workers[msg.phoneid].process_msg(msg) runs: the lookup raises
\* KeyError for a phoneid that is not registered, and what process_msg raises is
\* not caught either (only KeyboardInterrupt is), so worker_msg_loop ends.
QueueGet(phoneid, processed) ==
    /\ pc[MainThread] = "scan"
    /\ local[MainThread].todo = <<>>
    /\ IF phoneid \notin DOMAIN phone_workers
       THEN /\ processed = "KeyError"
            /\ pc' = [pc EXCEPT ![MainThread] = "raised"]
            /\ last_ops' = <<>>
       ELSE /\ processed \in {"ok", "raised"}
            /\ pc' = [pc EXCEPT ![MainThread] = IF processed = "ok" THEN "loop" ELSE "raised"]
            /\ last_ops' = <<Op("process_msg", phoneid, processed)>>
    /\ local' = [local EXCEPT ![MainThread].msg = phoneid]
    /\ UNCHANGED <<proc, cache, persisted, typed_ids, ctl, phone_workers, next_worker_num,
                   worker_lock, cmd_lock, events, scan_disabled, pm_vars>>

\* What an IOError of the poll carries.
Errnos == {"EINTR", "EIO"}

\* self.worker_msg_queue.get(timeout=5) raises IOError.  With errno EINTR the
\* loop continues.  With any other errno the handler falls through to
\* self.phone_workers[msg.phoneid].process_msg(msg): msg is what an earlier
\* iteration has bound, and UnboundLocalError is raised if none has.  The step's
\* operations begin with the error of the poll.
QueueGetIOError(errno, processed) ==
    LET msg == local[MainThread].msg
    IN  /\ pc[MainThread] = "scan"
        /\ local[MainThread].todo = <<>>
        /\ IF errno = "EINTR"
           THEN /\ processed = "none"
                /\ pc' = [pc EXCEPT ![MainThread] = "loop"]
                /\ last_ops' = <<Op("IOError", NoPhone, errno)>>
           ELSE IF msg = NoPhone
           THEN /\ processed = "UnboundLocalError"
                /\ pc' = [pc EXCEPT ![MainThread] = "raised"]
                /\ last_ops' = <<Op("IOError", NoPhone, errno)>>
           ELSE /\ processed \in {"ok", "raised"}
                /\ pc' = [pc EXCEPT ![MainThread] = IF processed = "ok" THEN "loop" ELSE "raised"]
                /\ last_ops' = <<Op("IOError", NoPhone, errno),
                                 Op("process_msg", msg, processed)>>
        /\ UNCHANGED <<proc, cache, persisted, typed_ids, ctl, phone_workers, next_worker_num,
                       worker_lock, cmd_lock, local, events, scan_disabled, pm_vars>>

(***************************************************************************)
(* The environment.                                                        *)
(***************************************************************************)
\* The deaths of worker processes so far: those counted and those not yet seen.
RECURSIVE Deaths(_, _)
Deaths(workers, keys) ==
    IF keys = {} THEN 0
    ELSE LET k == CHOOSE x \in keys : TRUE
         IN  workers[k].crashes + (IF workers[k].alive THEN 0 ELSE 1)
               + Deaths(workers, keys \ {k})

\* A worker process dies.
WorkerDies(p) ==
    /\ proc = "running"
    /\ p \in DOMAIN phone_workers
    /\ phone_workers[p].alive
    /\ phone_workers' = [phone_workers EXCEPT ![p].alive = FALSE]
    /\ last_ops' = <<>>
    /\ UNCHANGED <<proc, cache, persisted, typed_ids, ctl, next_worker_num, worker_lock, cmd_lock, pc, local, events,
                   scan_disabled, pm_vars>>

PhoneIds == {PhoneIdOf(ParseQs(r)) : r \in RegisterParams}

\* One way to type each phone's registration.
PlainParams == {r \in RegisterParams : r.name[1] = "a" /\ r.name[2] = ":"}

FirstConn == <<"conn", 1>>

(***************************************************************************)
(* CmdTCPHandler.handle: the lines of one connection.  A text is a list of *)
(* pieces: words, blanks (any white space but the newline) and newlines.   *)
(***************************************************************************)
Pieces == {"log", "quit", " ", "\n"}

\* The texts of n pieces.
RECURSIVE Texts(_)
Texts(n) ==
    IF n = 0 THEN {<<>>}
    ELSE {<<p>> \o t : p \in Pieces, t \in Texts(n - 1)}

\* s.strip()
RECURSIVE LStrip(_)
LStrip(s) == IF s # <<>> /\ Head(s) \in {" ", "\n"} THEN LStrip(Tail(s)) ELSE s

RECURSIVE RStrip(_)
RStrip(s) ==
    IF s # <<>> /\ s[Len(s)] \in {" ", "\n"} THEN RStrip(SubSeq(s, 1, Len(s) - 1)) ELSE s

Strip(s) == RStrip(LStrip(s))

\* A handler that takes what is left in the buffer for a line.
HasLineAlways(buffer) == buffer # <<>>

\* line, nl, rest = buffer.partition('\n'): nl is not empty
HasLine(buffer) == \E i \in DOMAIN buffer : buffer[i] = "\n"

\* The place of the first newline, or behind the end if there is none.
LineEnd(buffer) ==
    IF \E i \in DOMAIN buffer : buffer[i] = "\n"
    THEN CHOOSE i \in DOMAIN buffer :
           buffer[i] = "\n" /\ \A j \in 1..(i - 1) : buffer[j] # "\n"
    ELSE Len(buffer) + 1

\* The reply of route_cmd to a line of these pieces: log [text] is answered ok,
\* anything else is an unknown command.
RouteResponse(line) ==
    IF line[1] = "log" /\ (Len(line) = 1 \/ line[2] = " ") THEN "ok" ELSE "Unknown command"

\* data = self.request.recv(1024) returns data; buffer += data
HandlerRecv(c, data) ==
    /\ proc = "running"
    /\ pc[c] = "recv"
    /\ data # <<>>
    /\ local' = [local EXCEPT ![c].buffer = @ \o data, ![c].received = @ \o data]
    /\ pc' = [pc EXCEPT ![c] = "lines"]
    /\ last_ops' = <<>>
    /\ UNCHANGED <<proc, cache, persisted, typed_ids, ctl, phone_workers, next_worker_num,
                   worker_lock, cmd_lock, events, scan_disabled, pm_vars>>

\* recv returns '' (the peer has closed) or fails with ECONNRESET: break
HandlerEof(c) ==
    /\ proc = "running"
    /\ pc[c] = "recv"
    /\ pc' = [pc EXCEPT ![c] = "closed"]
    /\ last_ops' = <<>>
    /\ UNCHANGED <<proc, cache, persisted, typed_ids, ctl, phone_workers, next_worker_num,
                   worker_lock, cmd_lock, local, events, scan_disabled, pm_vars>>

\* One turn of while buffer: the loop is left when no newline is there; else the
\* line is taken off the buffer and stripped; an empty line is passed over,
\* quit and exit close the connection, and any other line is routed (route_cmd
\* takes and releases cmd_lock) and its reply sent.
HandlerLine(c) ==
    LET buffer == local[c].buffer
        line == Strip(SubSeq(buffer, 1, LineEnd(buffer) - 1))
        rest == SubSeq(buffer, LineEnd(buffer) + 1, Len(buffer))
    IN  /\ pc[c] = "lines"
        /\ IF buffer = <<>> \/ ~HasLine(buffer)
           THEN /\ pc' = [pc EXCEPT ![c] = "recv"]
                /\ local' = local
           ELSE IF line = <<>>
           THEN /\ pc' = pc
                /\ local' = [local EXCEPT ![c].buffer = rest]
           ELSE IF line = <<"quit">> \/ line = <<"exit">>
           THEN /\ pc' = [pc EXCEPT ![c] = "closed"]
                /\ local' = [local EXCEPT ![c].buffer = rest]
           ELSE /\ cmd_lock = NoThread
                /\ pc' = pc
                /\ local' = [local EXCEPT ![c].buffer = rest,
                                          ![c].routed = Append(@, line),
                                          ![c].sent = Append(@, RouteResponse(line))]
        /\ last_ops' = <<>>
        /\ UNCHANGED <<proc, cache, persisted, typed_ids, ctl, phone_workers, next_worker_num,
                       worker_lock, cmd_lock, events, scan_disabled, pm_vars>>

(***************************************************************************)
(* stop(), and the ways that lead to it.                                   *)
(***************************************************************************)
\* register commands that lack a field, or whose cmdport is no number.
BadRegisterParams ==
    UNION {{[k \in DOMAIN r \ {f} |-> r[k]] :
              f \in {"name", "hardware", "pool", "ipaddr", "cmdport", "os"}}
           \cup {[r EXCEPT !.cmdport = <<"x">>]} : r \in PlainParams}

\* register_cmd raises inside its try: data['name'] and data['hardware'] are read
\* for every phone, the other fields and int(cmdport) only for an unknown one.
RegisterRaises(data, workers) ==
    IF {"name", "hardware"} \ DOMAIN data # {} THEN TRUE
    ELSE IF ~UnknownPhone(PhoneIdOf(data), workers) THEN FALSE
    ELSE IF {"pool", "ipaddr", "cmdport", "os"} \ DOMAIN data # {} THEN TRUE
    ELSE ~IsNumeric(data.cmdport)

\* register <urlencoded> where register_cmd raises: the bare except prints
\* 'ERROR: could not write cache file, exiting' and calls self.stop().
CmdRegisterRaises(c, params) ==
    /\ Enter(c)
    /\ RegisterRaises(ParseQs(params), phone_workers)
    /\ ctl' = [ctl EXCEPT !.cause = "register"]
    /\ pc' = [pc EXCEPT ![c] = "stop"]
    /\ local' = [local EXCEPT ![c].response = "ok"]
    /\ last_ops' = <<Op("register_cmd", NoPhone, "raised")>>
    /\ UNCHANGED <<proc, cache, persisted, typed_ids, phone_workers, next_worker_num,
                   worker_lock, events, scan_disabled, pm_vars>>

\* stop: route_cmd calls self.stop().
CmdStop(c) ==
    /\ Enter(c)
    /\ ctl' = [ctl EXCEPT !.cause = "stop_cmd"]
    /\ pc' = [pc EXCEPT ![c] = "stop"]
    /\ local' = [local EXCEPT ![c].response = "ok"]
    /\ last_ops' = <<>>
    /\ UNCHANGED <<proc, cache, persisted, typed_ids, phone_workers, next_worker_num,
                   worker_lock, events, scan_disabled, pm_vars>>

\* The ways stop() is reached on the main thread.
Signals == {"sigterm", "interrupt"}

\* SIGTERM (sigterm_handler) or a KeyboardInterrupt in worker_msg_loop: the main
\* thread calls self.stop().
Interrupted(signal) ==
    /\ proc = "running"
    /\ pc[MainThread] = "loop"
    /\ ctl' = [ctl EXCEPT !.cause = signal]
    /\ pc' = [pc EXCEPT ![MainThread] = "stop"]
    /\ last_ops' = <<>>
    /\ UNCHANGED <<proc, cache, persisted, typed_ids, phone_workers, next_worker_num,
                   worker_lock, cmd_lock, local, events, scan_disabled, pm_vars>>

\* stop(): self._stop = True; self.server.shutdown(); then the workers are
\* listed (self.phone_workers.values()).
StopBegin(t) ==
    /\ pc[t] = "stop"
    /\ ctl' = [ctl EXCEPT !.stop = TRUE, !.server = "shutdown",
                          !.log = @ \o <<Op("set_stop", NoPhone, ""),
                                         Op("shutdown", NoPhone, "")>>]
    /\ local' = [local EXCEPT ![t].todo = DictOrder(DOMAIN phone_workers)]
    /\ pc' = [pc EXCEPT ![t] = "stop_workers"]
    /\ last_ops' = <<>>
    /\ UNCHANGED <<proc, cache, persisted, typed_ids, phone_workers, next_worker_num,
                   worker_lock, cmd_lock, events, scan_disabled, pm_vars>>

\* stop(): p.stop() on the next worker of the list
StopWorker(t) ==
    /\ pc[t] = "stop_workers"
    /\ local[t].todo # <<>>
    /\ phone_workers' = [phone_workers EXCEPT ![Head(local[t].todo)].alive = FALSE]
    /\ ctl' = [ctl EXCEPT !.log = Append(@, Op("stop", Head(local[t].todo), ""))]
    /\ local' = [local EXCEPT ![t].todo = Tail(@)]
    /\ last_ops' = <<Op("stop", Head(local[t].todo), "")>>
    /\ UNCHANGED <<proc, cache, persisted, typed_ids, next_worker_num, worker_lock, cmd_lock,
                   pc, events, scan_disabled, pm_vars>>

\* stop(): self.server_thread.join(), and stop() returns: to route_cmd on a
\* handler thread, to the end of worker_msg_loop on the main thread.
StopJoin(t) ==
    /\ pc[t] = "stop_workers"
    /\ local[t].todo = <<>>
    /\ ctl' = [ctl EXCEPT !.log = Append(@, Op("join", NoPhone, "")), !.returned = TRUE]
    /\ pc' = [pc EXCEPT ![t] = IF t \in Conns THEN "release_cmd" ELSE "exit"]
    /\ last_ops' = <<>>
    /\ UNCHANGED <<proc, cache, persisted, typed_ids, phone_workers, next_worker_num,
                   worker_lock, cmd_lock, local, events, scan_disabled, pm_vars>>

\* worker_msg_loop ends (while not self._stop, or after the interrupt), run()
\* returns and the process exits once the server thread has ended; the handler
\* threads are daemon threads and end with it.
MainExit ==
    /\ ctl.stop
    /\ ctl.server = "shutdown"
    /\ pc[MainThread] \in {"loop", "exit"}
    /\ Terminate

(***************************************************************************)
(* The pulse monitor (autophonepulsemonitor.py).                           *)
(***************************************************************************)
\* The elements of a list.
Range(q) == {q[i] : i \in 1..Len(q)}

\* A constructor that keeps the platforms in the order it was given.
KeepPlatforms(platforms) == platforms

\* The list after x is inserted behind every element that is not shorter.
RECURSIVE InsertByLength(_, _)
InsertByLength(sorted, x) ==
    IF sorted = <<>> THEN <<x>>
    ELSE IF Len(Head(sorted)) >= Len(x)
         THEN <<Head(sorted)>> \o InsertByLength(Tail(sorted), x)
         ELSE <<x>> \o sorted

\* self.platforms.sort(cmp=lambda x, y: (len(y) - len(x))): list.sort is stable,
\* so the platforms come longest first and those of one length in the given order.
RECURSIVE SortPlatforms(_)
SortPlatforms(platforms) ==
    IF platforms = <<>> THEN <<>>
    ELSE InsertByLength(SortPlatforms(SubSeq(platforms, 1, Len(platforms) - 1)),
                        platforms[Len(platforms)])

\* AutophonePulseMonitor(...): the fields the handlers read; trees, platforms
\* and buildtypes are not empty (the constructor asserts it).
PulseMonitor(treeherder_url, trees, platforms, buildtypes) ==
    [constructed |-> TRUE,
     platforms_arg |-> platforms,      \* history: the list as it was supplied
     treeherder_url |-> treeherder_url,
     trees |-> trees,
     platforms |-> SortPlatforms(platforms),
     buildtypes |-> buildtypes,
     stopping |-> FALSE]

\* What a handler did with a message.
Dropped == [result |-> "dropped"]

Raised(what) == [result |-> "raised", error |-> what]

Called(callback, data) == [result |-> "called", callback |-> callback, data |-> data]

\* The keys get_treeherder_privatebuild_info requires of the job's details.
PrivateBuildKeys == {"build_url", "config_file", "chunk", "builder_type"}

\* A lookup that is content with one of the keys.
PrivateBuildInfoFoundAny(titles) == PrivateBuildKeys \cap titles # {}

\* get_treeherder_privatebuild_info finds every key.
PrivateBuildInfoFound(titles) == PrivateBuildKeys \ titles = {}

\* The first platform of the list that occurs in build_url, else the job's own.
RECURSIVE DetectPlatform(_, _, _)
DetectPlatform(platforms, build_url, job_platform) ==
    IF platforms = <<>> THEN job_platform
    ELSE IF Contains(build_url, Head(platforms)) THEN Head(platforms)
         ELSE DetectPlatform(Tail(platforms), build_url, job_platform)

\* detected_platform when handle_jobaction returns.
DetectedPlatform(m, d) ==
    IF m.platforms # <<>>
    THEN DetectPlatform(m.platforms, d.build_url, d.job.platform)
    ELSE d.job.platform

\* jobaction_data after jobaction_data.update(build_data): build_data has the keys
\* platform and build_type (handle_taskcompleted reads them), which update() puts
\* in the place of detected_platform and the job's build type.
JobactionData(d, detected_platform) ==
    [action |-> d.action, project |-> d.project, job_id |-> d.job_id,
     build_url |-> d.build_url, chunk |-> ParseInt(d.chunk),
     builder_type |-> d.builder_type,
     platform |-> d.build_data.platform, build_type |-> d.build_data.build_type,
     repo |-> d.build_data.repo]

\* handle_jobaction
HandleJobaction(m, d) ==
    IF m.trees # {} /\ d.project \notin m.trees THEN Dropped
    ELSE IF ~d.job.found THEN Dropped
    ELSE IF m.buildtypes # {} /\ d.job.platform_option \notin m.buildtypes THEN Dropped
    ELSE IF ~PrivateBuildInfoFound(d.titles) THEN Dropped
    ELSE IF ~d.build_data.found THEN Dropped
    ELSE IF m.platforms # <<>> /\ DetectedPlatform(m, d) = <<>> THEN Dropped
    ELSE IF ~IsNumeric(d.chunk) THEN Raised("ValueError")
    ELSE Called("jobaction_callback", JobactionData(d, DetectedPlatform(m, d)))

\* The locals of handle_jobaction when it returns: detected_platform is bound
\* once the build data is in hand.
JobactionLocals(m, d) ==
    IF /\ ~(m.trees # {} /\ d.project \notin m.trees)
       /\ d.job.found
       /\ ~(m.buildtypes # {} /\ d.job.platform_option \notin m.buildtypes)
       /\ PrivateBuildInfoFound(d.titles)
       /\ d.build_data.found
    THEN [bound |-> TRUE, detected_platform |-> DetectedPlatform(m, d)]
    ELSE NoLocals

\* The word a try push must carry in its comments.
Autophone == <<"a", "u", "t", "o", "p", "h", "o", "n", "e">>

\* A handler that asks every repo to opt in.
TryOptedOutAnyRepo(repo, comments) == ~Contains(comments, Autophone)

\* build_data['repo'] == 'try' and 'autophone' not in build_data['comments']
TryOptedOut(repo, comments) == repo = "try" /\ ~Contains(comments, Autophone)

\* A handler that applies the tier to every builder.
TierRejectedAnyBuilder(builder_type, tier) == tier # 1

\* builder_type != 'buildbot' and tier != 1
TierRejected(builder_type, tier) == builder_type # "buildbot" /\ tier # 1

\* 'buildbot' if worker_type == 'buildbot' else 'taskcluster'
BuilderType(worker_type) == IF worker_type = "buildbot" THEN "buildbot" ELSE "taskcluster"

\* A key that is the last segment of the name, whatever the directory.
ArtifactKeyBasename(name) == <<name[Len(name)]>>

\* artifact['name'].replace('public/build/', ''), a name being a list of path
\* segments
ArtifactKey(name) == SelectSeq(name, LAMBDA seg : seg # "public/build/")

\* The gates a target.apk artifact passes, in the code's order; "pass" if all.
TargetApkGate(m, d) ==
    IF ~d.build_data.found THEN "dropped"
    ELSE IF TierRejected(BuilderType(d.worker_type), d.tier) THEN "dropped"
    ELSE IF d.build_data.repo \notin m.trees THEN "dropped"
    ELSE IF d.build_data.platform \notin Range(m.platforms) THEN "dropped"
    ELSE IF ~d.build_data.has_build_type THEN "raised"
    ELSE IF d.build_data.build_type \notin m.buildtypes THEN "dropped"
    ELSE IF ~d.build_data.has_id THEN "dropped"
    ELSE "pass"

\* 'https://queue.taskcluster.net/v1/task/%s/runs/%s/artifacts/%s' % (task_id,
\* run_id, artifact['name']): the URL of an artifact of the task in hand.
ArtifactUrl(name) == <<"https://queue.taskcluster.net/v1/task/runs/artifacts/">> \o name

\* d[key] = value on a dict
DictPut(d, key, value) == [k \in DOMAIN d \cup {key} |-> IF k = key THEN value ELSE d[k]]

\* The artifact loop: st.build_data says whether build_data is set, st.app_data
\* maps the app names recorded to their build URLs; st.result is "pass" until a
\* gate returns or raises.
RECURSIVE ArtifactLoop(_, _, _, _)
ArtifactLoop(m, d, artifacts, st) ==
    IF artifacts = <<>> \/ st.result # "pass" THEN st
    ELSE LET key == ArtifactKey(Head(artifacts))
             next ==
               IF key = <<"target.apk">>
               THEN [result |-> TargetApkGate(m, d),
                     build_data |-> d.build_data.found,
                     app_data |-> DictPut(st.app_data, "org.mozilla.fennec",
                                          ArtifactUrl(Head(artifacts)))]
               ELSE IF key = <<"geckoview_example.apk">>
               THEN [st EXCEPT !.app_data = DictPut(@, "org.mozilla.geckoview_example",
                                                    ArtifactUrl(Head(artifacts)))]
               ELSE st
         IN  ArtifactLoop(m, d, Tail(artifacts), next)

\* build_data['comments']: rev_json['desc'], 'unknown' when there is no rev_json
Unknown == <<"u", "n", "k", "n", "o", "w", "n">>

\* A handler that leaves the comments empty when there is no rev_json.
CommentsOrEmpty(rev_json) == IF rev_json.found THEN rev_json.desc ELSE <<>>

Comments(rev_json) == IF rev_json.found THEN rev_json.desc ELSE Unknown

\* build_data as build_callback receives it
BuildCallbackData(d, app_data) ==
    [repo |-> d.build_data.repo, platform |-> d.build_data.platform,
     build_type |-> d.build_data.build_type, builder_name |-> "unknown",
     app_data |-> app_data, comments |-> Comments(d.rev_json)]

\* handle_taskcompleted
HandleTaskcompleted(m, d) ==
    IF d.mh_branch.found /\ d.mh_branch.v \notin m.trees THEN Dropped
    ELSE LET st == ArtifactLoop(m, d, d.artifacts,
                       [result |-> "pass", build_data |-> FALSE, app_data |-> <<>>])
         IN  IF st.result = "dropped" THEN Dropped
             ELSE IF st.result = "raised" THEN Raised("KeyError")
             ELSE IF ~st.build_data THEN Dropped
             ELSE IF d.rev_json.found /\ ~d.rev_json.has_desc THEN Raised("KeyError")
             ELSE IF TryOptedOut(d.build_data.repo, Comments(d.rev_json)) THEN Dropped
             ELSE Called("build_callback", BuildCallbackData(d, st.app_data))

\* self.treeherder_url and 'action' in data and 'project' in data and 'job_id' in data
IsJobaction(m, d) == m.treeherder_url /\ {"action", "project", "job_id"} \subseteq d.keys

\* A routing that looks for the status key first.
HandlerStatusFirst(m, d) ==
    IF "status" \in d.keys THEN "handle_taskcompleted"
    ELSE IF IsJobaction(m, d) THEN "handle_jobaction"
    ELSE "none"

\* handle_message after message.ack(): the handler the keys of data select
Handler(m, d) ==
    IF IsJobaction(m, d) THEN "handle_jobaction"
    ELSE IF "status" \in d.keys THEN "handle_taskcompleted"
    ELSE "none"

\* handle_message after message.ack(): what the selected handler does
Dispatch(m, d) ==
    IF Handler(m, d) = "handle_jobaction" THEN HandleJobaction(m, d)
    ELSE IF Handler(m, d) = "handle_taskcompleted" THEN HandleTaskcompleted(m, d)
    ELSE Dropped

\* A handler that acknowledges the message after it has handled it.
HandlerCallsAckLast(out) ==
    (IF out.result = "called" THEN <<out.callback>> ELSE <<>>) \o <<"ack">>

\* What handle_message calls, in order: message.ack(), then the handler, which
\* may end in a callback.
HandlerCalls(out) ==
    <<"ack">> \o (IF out.result = "called" THEN <<out.callback>> ELSE <<>>)

\* handle_message: nothing once the monitor is stopping; else acknowledge the
\* message and dispatch it.  A callback is called by the handler itself, on the
\* thread that runs listen(), and runs before the handler returns.
HandleMessage ==
    /\ pm_pc = "received"
    /\ pm_pc' = "done"
    /\ IF monitor.stopping
       THEN UNCHANGED <<message, callbacks, pm_local>>
       ELSE LET out == Dispatch(monitor, message)
            IN  /\ message' = [message EXCEPT !.acked = TRUE, !.outcome = out.result,
                                              !.calls = HandlerCalls(out),
                                              !.handler = Handler(monitor, message)]
                /\ callbacks' = IF out.result = "called"
                                THEN Append(callbacks, [callback |-> out.callback,
                                                        data |-> out.data,
                                                        thread |-> PulseThread])
                                ELSE callbacks
                /\ pm_local' =
                     IF IsJobaction(monitor, message)
                     THEN JobactionLocals(monitor, message) ELSE NoLocals
    /\ UNCHANGED <<monitor, listener, ap_vars>>

(***************************************************************************)
(* listen(): the connection to the broker.                                 *)
(***************************************************************************)
\* What Connection(), Consumer() and the queue declarations end in.
ConnectResults == {"connected", "raised"}

\* while restart: restart = False; Connection(...), Consumer(...),
\* queue_declare and queue_bind for each queue, which connect to the broker or
\* raise.
ListenConnect(result) ==
    /\ listener.pc = "while_restart"
    /\ listener.restart
    /\ listener' = [listener EXCEPT
                      !.restart = FALSE,
                      !.connection = IF result = "connected" THEN "open" ELSE "unconnected",
                      !.opened = IF result = "connected" THEN @ + 1 ELSE @,
                      !.pc = IF result = "connected" THEN "drain" ELSE "except",
                      !.last = result]
    /\ UNCHANGED <<monitor, message, callbacks, pm_pc, pm_local, ap_vars>>

\* What connection.drain_events(timeout) ends in: events handled, socket.timeout,
\* a socket.error whose text has 'timed out', or another exception.
DrainResults == {"events", "socket.timeout", "timed out", "raised"}

\* A drain loop that does not look at the stop flag.
DrainUnlessStopped(result) ==
    /\ listener.pc = "drain"
    /\ listener' = [listener EXCEPT
                      !.pc = IF result = "raised" THEN "except" ELSE "drain",
                      !.last = result]
    /\ UNCHANGED <<monitor, message, callbacks, pm_pc, pm_local, ap_vars>>

\* One turn of while not self._stopping.is_set(): connection.drain_events(...)
\* with its two except clauses; the with block is left when stopping is set.
Drain(result) ==
    /\ listener.pc = "drain"
    /\ IF monitor.stopping
       THEN listener' = [listener EXCEPT !.pc = "finally", !.last = "stopping"]
       ELSE listener' = [listener EXCEPT
                           !.pc = IF result = "raised" THEN "except" ELSE "drain",
                           !.last = result]
    /\ UNCHANGED <<monitor, message, callbacks, pm_pc, pm_local, ap_vars>>

\* The loop test has passed and connection.drain_events(...) has a message d from
\* the broker, for which kombu calls handle_message on this thread.
DrainDeliver(d) ==
    /\ listener.pc = "drain"
    /\ ~monitor.stopping
    /\ pm_pc \in {"off", "done"}
    /\ listener' = [listener EXCEPT !.pc = "drain_events", !.last = "events"]
    /\ message' = d
    /\ pm_pc' = "received"
    /\ UNCHANGED <<monitor, callbacks, pm_local, ap_vars>>

\* handle_message has returned, and drain_events returns to the loop.
DrainDelivered ==
    /\ listener.pc = "drain_events"
    /\ pm_pc = "done"
    /\ listener' = [listener EXCEPT !.pc = "drain"]
    /\ pm_pc' = "off"
    /\ UNCHANGED <<monitor, message, callbacks, pm_local, ap_vars>>

\* except: if connection: connection.release(); if not stopping: restart = True
\* and time.sleep(wait) begins.
ListenExcept ==
    /\ listener.pc = "except"
    /\ listener' = [listener EXCEPT
                      !.connection = "released",
                      !.released = @ + 1,
                      !.restart = ~monitor.stopping,
                      !.pc = IF monitor.stopping THEN "finally" ELSE "sleep",
                      !.last = "except"]
    /\ UNCHANGED <<monitor, message, callbacks, pm_pc, pm_local, ap_vars>>

\* time.sleep(wait) ends; the finally clause does nothing as restart is set, and
\* the while loop goes round.
ListenSleep ==
    /\ listener.pc = "sleep"
    /\ listener' = [listener EXCEPT !.pc = "while_restart", !.last = "sleep"]
    /\ UNCHANGED <<monitor, message, callbacks, pm_pc, pm_local, ap_vars>>

\* finally: if connection and not restart: connection.release(); restart is not
\* set, so listen() returns.
ListenFinally ==
    /\ listener.pc = "finally"
    /\ listener' = [listener EXCEPT
                      !.connection = "released",
                      !.released = @ + 1,
                      !.pc = "returned",
                      !.last = "finally"]
    /\ UNCHANGED <<monitor, message, callbacks, pm_pc, pm_local, ap_vars>>

\* stop(): self._stopping.set()
MonitorStop ==
    /\ listener.pc # "off"
    /\ ~monitor.stopping
    /\ monitor' = [monitor EXCEPT !.stopping = TRUE]
    /\ UNCHANGED <<listener, message, callbacks, pm_pc, pm_local, ap_vars>>

(***************************************************************************)
(* Specifications.  Each starts with no process and no roster file.        *)
(***************************************************************************)
\* The registry and its roster file over the runs of the process: registration,
\* the commands that name a phone, the other commands, stop and start.
NextRegistry ==
    \/ \E clear_cache, reboot_phones \in BOOLEAN : Construct(clear_cache, reboot_phones)
    \/ Terminate
    \/ \E c \in Conns, params \in RegisterParams : CmdRegister(c, params)
    \/ \E c \in Conns, verb \in PhoneVerbs, phoneid \in PhoneParams : CmdPhoneVerb(c, verb, phoneid)
    \/ \E c \in Conns, verb \in OtherVerbs : CmdOther(c, verb)
    \/ \E c \in Conns : RouteCmdRelease(c)

SpecRegistry == Init /\ [][NextRegistry]_vars

\* Build events from the pulse thread and from operators, fanned out while phones
\* are being registered.
NextFanout ==
    \/ \E clear_cache, reboot_phones \in BOOLEAN : Construct(clear_cache, reboot_phones)
    \/ \E c \in Conns, params \in PlainParams : CmdRegister(c, params)
    \/ \E c \in Conns, url \in BuildUrls, first, forced \in ArchiveKinds :
         events < MaxEvents /\ CmdTriggerJobs(c, url, first, forced)
    \/ \E c \in Conns : RouteCmdRelease(c)
    \/ \E msg \in BuildMsgs, first, forced \in ArchiveKinds :
         events < MaxEvents /\ OnBuild(msg, first, forced)
    \/ \E t \in FanoutThreads : StartTestsAcquire(t)
    \/ \E t \in FanoutThreads : AddJob(t)
    \/ \E t \in FanoutThreads : StartTestsRelease(t)

SpecFanout == Init /\ [][NextFanout]_vars

\* Workers dying and the liveness scan restarting them, with an operator who
\* registers phones, enables them and triggers jobs.
NextScan ==
    \/ \E clear_cache, reboot_phones \in BOOLEAN : Construct(clear_cache, reboot_phones)
    \/ \E params \in PlainParams : CmdRegister(FirstConn, params)
    \/ \E url \in BuildUrls :
         events < MaxScanEvents /\ CmdTriggerJobs(FirstConn, url, "good", "good")
    \/ \E p \in PhoneIds : CmdPhoneVerb(FirstConn, "enable", p)
    \/ RouteCmdRelease(FirstConn)
    \/ StartTestsAcquire(FirstConn)
    \/ AddJob(FirstConn)
    \/ StartTestsRelease(FirstConn)
    \/ LoopScan
    \/ ScanWorker("sent")
    \/ QueueGetEmpty
    \/ \E p \in PhoneIds :
         Deaths(phone_workers, DOMAIN phone_workers) < MaxCrashes /\ WorkerDies(p)

SpecScan == Init /\ [][NextScan]_vars

\* Shutdown: the stop command, a register command that raises, SIGTERM and the
\* keyboard interrupt, while operators register phones.  stop() is called at most
\* once in a run.
NextStop ==
    \/ \E clear_cache, reboot_phones \in BOOLEAN : Construct(clear_cache, reboot_phones)
    \/ \E c \in Conns, params \in PlainParams : CmdRegister(c, params)
    \/ \E c \in Conns, params \in BadRegisterParams :
         ctl.cause = "none" /\ CmdRegisterRaises(c, params)
    \/ \E c \in Conns, params \in BadRegisterParams :
         ~RegisterRaises(ParseQs(params), phone_workers) /\ CmdRegister(c, params)
    \/ \E c \in Conns : ctl.cause = "none" /\ CmdStop(c)
    \/ \E signal \in Signals : ctl.cause = "none" /\ Interrupted(signal)
    \/ \E c \in Conns : RouteCmdRelease(c)
    \/ \E t \in Threads : StopBegin(t)
    \/ \E t \in Threads : StopWorker(t)
    \/ \E t \in Threads : StopJoin(t)
    \/ MainExit

SpecStop == Init /\ [][NextStop]_vars

\* The inbox: worker_msg_loop takes the workers' messages between its scans,
\* while an operator registers phones.
NextInbox ==
    \/ \E clear_cache, reboot_phones \in BOOLEAN : Construct(clear_cache, reboot_phones)
    \/ \E c \in Conns, params \in PlainParams : CmdRegister(c, params)
    \/ \E c \in Conns : RouteCmdRelease(c)
    \/ LoopScan
    \/ ScanWorker("sent")
    \/ QueueGetEmpty
    \/ \E phoneid \in PhoneIds, processed \in {"ok", "raised", "KeyError"} :
         QueueGet(phoneid, processed)
    \/ Terminate

SpecInbox == Init /\ [][NextInbox]_vars

(***************************************************************************)
(* Inputs of the pulse monitor.                                            *)
(***************************************************************************)
\* Strings of exactly n characters.
StringsOfLen(alphabet, n) == [1..n -> alphabet]

\* The letters of platform names and build URLs.
Letters == {"a", "d"}

PlatformNames == UNION {StringsOfLen(Letters, n) : n \in 1..MaxPlatformLen}

\* The lists of n distinct platforms a monitor may be given.
PlatformLists(n) ==
    {q \in [1..n -> PlatformNames] : \A i, j \in 1..n : q[i] = q[j] => i = j}

BuildUrlTexts == StringsOfLen(Letters, MaxUrlLen)

Trees == {"try", "mozilla-central"}

Buildtypes == {"opt"}

\* n times the character c
Pad(c, n) == [i \in 1..n |-> c]

\* Check-in comments: a word with some padding around it.
CommentTexts ==
    {Pad("x", l) \o w \o Pad("y", r) :
        l \in 0..MaxPad, r \in 0..MaxPad,
        w \in {Autophone, SubSeq(Autophone, 1, 8), <<"A">> \o Tail(Autophone)}}

\* What the json-rev service answers.
RevJsons ==
    {[found |-> FALSE, has_desc |-> FALSE, desc |-> <<>>],
     [found |-> TRUE, has_desc |-> FALSE, desc |-> <<>>]}
    \cup {[found |-> TRUE, has_desc |-> TRUE, desc |-> c] : c \in CommentTexts}

NoBuildData ==
    [found |-> FALSE, repo |-> "", platform |-> <<>>, build_type |-> "",
     has_build_type |-> FALSE, has_id |-> FALSE]

\* What utils.get_build_data answers for a build URL.
BuildDatas ==
    {NoBuildData}
    \cup {[found |-> TRUE, repo |-> r, platform |-> pl, build_type |-> bt,
           has_build_type |-> k[1], has_id |-> k[2]] :
             r \in Trees \cup {"other"}, pl \in {<<"a">>, <<"d">>},
             bt \in {"opt", "debug"},
             k \in {<<TRUE, TRUE>>, <<TRUE, FALSE>>, <<FALSE, TRUE>>}}

\* The artifacts of a task, each name a list of path segments.
ArtifactLists ==
    {<<>>,
     << <<"public/build/", "target.apk">> >>,
     << <<"public/build/", "geckoview_example.apk">>, <<"public/build/", "target.apk">> >>,
     << <<"public/build/", "target.apk">>, <<"public/build/", "geckoview_example.apk">> >>,
     << <<"public/build/", "geckoview_example.apk">>, <<"public/logs/", "target.apk">> >>}

MhBranches ==
    {[found |-> FALSE, v |-> ""], [found |-> TRUE, v |-> "try"],
     [found |-> TRUE, v |-> "other"]}

\* The worker types of tasks: buildbot's and one of taskcluster's.
WorkerTypes == {"buildbot", "gecko-1-b-android"}

\* A task-completed message with the answers of the services it leads to.
TaskMessage(b, wt, al, bd, tier, rj) ==
    [keys |-> {"status", "runId"}, acked |-> FALSE, outcome |-> "none", calls |-> <<>>,
     handler |-> "none",
     mh_branch |-> b, worker_type |-> wt, artifacts |-> al, build_data |-> bd,
     tier |-> tier, rev_json |-> rj]

\* The monitor of the task-completed runs.
TaskMonitor == PulseMonitor(TRUE, Trees, << <<"a">> >>, Buildtypes)

\* A job-action message whose every gate before the platform detection passes.
GoodJobaction(url) ==
    [keys |-> {"action", "project", "job_id"}, acked |-> FALSE, outcome |-> "none", calls |-> <<>>,
     handler |-> "none",
     action |-> "retrigger", project |-> "try", job_id |-> 1,
     job |-> [found |-> TRUE, platform_option |-> "opt", platform |-> <<"z">>],
     titles |-> PrivateBuildKeys, build_url |-> url, builder_type |-> "taskcluster",
     chunk |-> <<"1">>,
     build_data |-> [found |-> TRUE, repo |-> "try", platform |-> <<"a">>,
                     build_type |-> "opt", has_build_type |-> TRUE, has_id |-> TRUE]]

\* The message with one thing changed that makes a gate refuse it.
RefusedJobactions(url) ==
    LET g == GoodJobaction(url)
    IN  {[g EXCEPT !.keys = {"action", "project"}],
         [g EXCEPT !.project = "other"],
         [g EXCEPT !.job.found = FALSE],
         [g EXCEPT !.job.platform_option = "debug"],
         [g EXCEPT !.titles = PrivateBuildKeys \ {"chunk"}],
         [g EXCEPT !.build_data = NoBuildData],
         [g EXCEPT !.job.platform = <<>>],
         [g EXCEPT !.chunk = <<"x">>]}

JobactionMonitor(treeherder_url, platforms) ==
    PulseMonitor(treeherder_url, Trees, platforms, Buildtypes)

\* The listener holds a message the broker delivered.
InitReceived(m, d) ==
    /\ monitor = m
    /\ message = d
    /\ callbacks = <<>>
    /\ pm_pc = "received"
    /\ pm_local = NoLocals
    /\ listener = NoListener

\* handle_message on task-completed messages, the monitor stopping or not.
InitTask ==
    /\ InitController
    /\ \E b \in MhBranches, wt \in WorkerTypes, al \in ArtifactLists, bd \in BuildDatas,
          tier \in 1..MaxTier, rj \in RevJsons, stopping \in BOOLEAN :
          InitReceived([TaskMonitor EXCEPT !.stopping = stopping],
                       TaskMessage(b, wt, al, bd, tier, rj))

SpecTask == InitTask /\ [][HandleMessage]_vars

\* handle_message on job-action messages: every list of platforms with every
\* URL, and the refused messages with one platform and some URLs.
InitJobaction ==
    /\ InitController
    /\ \/ \E n \in 1..MaxPlatforms : \E pl \in PlatformLists(n), u \in BuildUrlTexts :
             InitReceived(JobactionMonitor(TRUE, pl), GoodJobaction(u))
       \/ \E th \in BOOLEAN, u \in {Pad("a", MaxUrlLen), Pad("d", MaxUrlLen)} :
             \E d \in RefusedJobactions(u) :
                InitReceived(JobactionMonitor(th, << <<"a">> >>), d)

SpecJobaction == InitJobaction /\ [][HandleMessage]_vars

\* The liveness scan with a mailer that may fail, while workers die.
NextMail ==
    \/ \E clear_cache, reboot_phones \in BOOLEAN : Construct(clear_cache, reboot_phones)
    \/ \E params \in PlainParams : CmdRegister(FirstConn, params)
    \/ RouteCmdRelease(FirstConn)
    \/ LoopScan
    \/ \E mail \in MailResults : ScanWorker(mail)
    \/ QueueGetEmpty
    \/ \E p \in PhoneIds :
         Deaths(phone_workers, DOMAIN phone_workers) < MaxCrashes /\ WorkerDies(p)

SpecMail == Init /\ [][NextMail]_vars

\* Commands whose action fails: triggerjobs on archives build_job cannot read,
\* and worker verbs that raise, beside the commands that succeed.
NextFaults ==
    \/ \E clear_cache, reboot_phones \in BOOLEAN : Construct(clear_cache, reboot_phones)
    \/ \E c \in Conns, params \in PlainParams : CmdRegister(c, params)
    \/ \E c \in Conns, url \in BuildUrls, first, forced \in ArchiveKinds \cup IniFaults :
         events < MaxEvents /\ CmdTriggerJobs(c, url, first, forced)
    \/ \E c \in Conns, verb \in PhoneVerbs, phoneid \in PhoneIds :
         CmdPhoneVerb(c, verb, phoneid)
    \/ \E c \in Conns, verb \in PhoneVerbs, phoneid \in PhoneIds :
         CmdPhoneVerbRaises(c, verb, phoneid)
    \/ \E c \in Conns : RouteCmdRelease(c)
    \/ \E c \in Conns : StartTestsAcquire(c)
    \/ \E c \in Conns : AddJob(c)
    \/ \E c \in Conns : StartTestsRelease(c)

SpecFaults == Init /\ [][NextFaults]_vars

\* One operator connection (a handler's buffer is its own): the data arrives in
\* chunks of up to MaxChunk pieces, MaxReceived pieces at most.
NextHandler ==
    \/ \E clear_cache, reboot_phones \in BOOLEAN : Construct(clear_cache, reboot_phones)
    \/ \E n \in 1..MaxChunk : \E data \in Texts(n) :
         Len(local[FirstConn].received) + n <= MaxReceived /\ HandlerRecv(FirstConn, data)
    \/ HandlerEof(FirstConn)
    \/ HandlerLine(FirstConn)

SpecHandler == Init /\ [][NextHandler]_vars

\* Shutdown from an operator's connection while the main thread scans: the stop
\* command runs stop() on the handler thread; worker_msg_loop tests _stop only
\* before a scan.
NextRace ==
    \/ \E clear_cache, reboot_phones \in BOOLEAN : Construct(clear_cache, reboot_phones)
    \/ \E c \in Conns, params \in PlainParams : ctl.cause = "none" /\ CmdRegister(c, params)
    \/ \E c \in Conns : ctl.cause = "none" /\ CmdStop(c)
    \/ \E c \in Conns : RouteCmdRelease(c)
    \/ \E c \in Conns : StopBegin(c)
    \/ \E c \in Conns : StopWorker(c)
    \/ \E c \in Conns : StopJoin(c)
    \/ LoopScan
    \/ ScanWorker("sent")
    \/ QueueGetEmpty
    \/ MainExit

SpecRace == Init /\ [][NextRace]_vars

\* Fan-outs from the pulse thread and from triggerjobs commands in which add_job
\* may fail.
NextAddJob ==
    \/ \E clear_cache, reboot_phones \in BOOLEAN : Construct(clear_cache, reboot_phones)
    \/ \E params \in PlainParams : CmdRegister(FirstConn, params)
    \/ \E url \in BuildUrls :
         events < MaxEvents /\ CmdTriggerJobs(FirstConn, url, "good", "good")
    \/ RouteCmdRelease(FirstConn)
    \/ \E msg \in BuildMsgs : events < MaxEvents /\ OnBuild(msg, "good", "good")
    \/ \E t \in FanoutThreads : StartTestsAcquire(t)
    \/ \E t \in FanoutThreads : AddJob(t)
    \/ \E t \in FanoutThreads : AddJobRaises(t)
    \/ \E t \in FanoutThreads : StartTestsRelease(t)

SpecAddJob == Init /\ [][NextAddJob]_vars

\* The inbox loop with polls that fail.
NextPoll ==
    \/ \E clear_cache, reboot_phones \in BOOLEAN : Construct(clear_cache, reboot_phones)
    \/ \E params \in PlainParams : CmdRegister(FirstConn, params)
    \/ RouteCmdRelease(FirstConn)
    \/ LoopScan
    \/ ScanWorker("sent")
    \/ QueueGetEmpty
    \/ \E phoneid \in PhoneIds, processed \in {"ok", "raised", "KeyError"} :
         QueueGet(phoneid, processed)
    \/ \E errno \in Errnos, processed \in {"none", "ok", "raised", "UnboundLocalError"} :
         QueueGetIOError(errno, processed)

SpecPoll == Init /\ [][NextPoll]_vars

\* The build URL of the n-th build event: every event has a build of its own.
EventUrl(n) == "u" \o ToString(n)

\* Fan-outs of different builds from the pulse thread and from triggerjobs
\* commands, running at the same time.
NextOrder ==
    \/ \E clear_cache, reboot_phones \in BOOLEAN : Construct(clear_cache, reboot_phones)
    \/ \E params \in PlainParams : CmdRegister(FirstConn, params)
    \/ events < MaxEvents /\ CmdTriggerJobs(FirstConn, EventUrl(events), "good", "good")
    \/ RouteCmdRelease(FirstConn)
    \/ events < MaxEvents /\ OnBuild([buildurl |-> EventUrl(events)], "good", "good")
    \/ \E t \in FanoutThreads : StartTestsAcquire(t)
    \/ \E t \in FanoutThreads : AddJob(t)
    \/ \E t \in FanoutThreads : StartTestsRelease(t)

SpecOrder == Init /\ [][NextOrder]_vars

\* start() has put listen() on its thread.
InitListen ==
    /\ InitController
    /\ monitor = TaskMonitor
    /\ message = NoMessage
    /\ callbacks = <<>>
    /\ pm_pc = "off"
    /\ pm_local = NoLocals
    /\ listener = [NoListener EXCEPT !.pc = "while_restart"]

\* The listener, the broker and a stop request; at most MaxConnects connections
\* are opened.
NextListen ==
    \/ \E result \in ConnectResults :
         listener.opened < MaxConnects /\ listener.released < MaxConnects + 1
           /\ ListenConnect(result)
    \/ \E result \in DrainResults : Drain(result)
    \/ ListenExcept
    \/ ListenSleep
    \/ ListenFinally
    \/ MonitorStop

SpecListen == InitListen /\ [][NextListen]_vars

\* A step of the listen thread, messages of the broker included; at most
\* MaxConnects connections are opened and MaxEvents callbacks made before stop
\* is requested.
ListenStep ==
    \/ \E result \in ConnectResults :
         /\ monitor.stopping
              \/ (listener.opened < MaxConnects /\ listener.released < MaxConnects + 1)
         /\ ListenConnect(result)
    \/ \E result \in DrainResults : Drain(result)
    \/ Len(callbacks) < MaxEvents /\ DrainDeliver(GoodJobaction(Pad("a", MaxUrlLen)))
    \/ HandleMessage
    \/ DrainDelivered
    \/ ListenExcept
    \/ ListenSleep
    \/ ListenFinally

NextListenStop == ListenStep \/ MonitorStop

\* The listen thread is scheduled as long as it has a step to take: its waits
\* (connect_timeout, drain_events' timeout, time.sleep) all end.
SpecListenStop == InitListen /\ [][NextListenStop]_vars /\ WF_vars(ListenStep)

\* The keys a payload may carry, beside others the handlers do not ask for.
RoutingKeys == {"action", "project", "job_id", "status"}

\* A payload with the fields of both kinds of message; its keys say which of
\* them it carries.
BothMessage(keys, al, project) ==
    [(TaskMessage([found |-> FALSE, v |-> ""], "gecko-1-b-android", al,
                  GoodJobaction(<<"a">>).build_data, 1,
                  [found |-> TRUE, has_desc |-> TRUE, desc |-> Autophone])
      @@ GoodJobaction(<<"a">>))
       EXCEPT !.keys = keys, !.project = project]

\* handle_message on payloads of every set of keys, with and without a
\* Treeherder URL.
InitRouting ==
    /\ InitController
    /\ \E keys \in SUBSET RoutingKeys, al \in ArtifactLists, project \in {"try", "other"},
          treeherder_url \in BOOLEAN :
          InitReceived(JobactionMonitor(treeherder_url, << <<"a">> >>),
                       BothMessage(keys, al, project))

SpecRouting == InitRouting /\ [][HandleMessage]_vars

(***************************************************************************)
(* Properties of the fan-out.                                              *)
(***************************************************************************)
\* A thread whose start_tests has called add_job on every worker it listed.
FanoutDone(t) == pc[t] = "add_job" /\ local[t].todo = <<>>

\* C1: a fan-out, begun by on_build or by triggerjobs, calls add_job exactly once
\* on every worker that was in the registry when start_tests listed the workers,
\* and on no other worker: while it runs, only listed workers have been called and
\* none twice; when it ends, every listed worker has been called once.
FanoutExactlyOnce ==
    \A t \in FanoutThreads :
        pc[t] = "add_job" =>
            /\ DOMAIN local[t].given \subseteq local[t].snap
            /\ \A p \in DOMAIN local[t].given :
                  /\ local[t].given[p] = 1
                  /\ Len(phone_workers[p].inbox) > 0
                  /\ phone_workers[p].inbox[Len(phone_workers[p].inbox)] = local[t].job
            /\ FanoutDone(t) => DOMAIN local[t].given = local[t].snap

\* C1 happens: the pulse thread and a command thread have each ended a fan-out of
\* a job to a listed worker, one of them while a phone registered after the
\* listing is in the registry and was not called.
FanoutExactlyOnceSeen ==
    /\ \E t \in FanoutThreads :
          /\ FanoutDone(t)
          /\ local[t].job # None
          /\ local[t].snap # {}
          /\ DOMAIN phone_workers \ local[t].snap # {}
    /\ \E p \in DOMAIN phone_workers : Len(phone_workers[p].inbox) = MaxEvents

\* C2: when the archive is corrupt on the first fetch and on the forced one,
\* build_job yields None and the fan-out of that event calls add_job on no worker.
CorruptBuildReachesNoWorker ==
    \A t \in FanoutThreads :
        (pc[t] = "add_job" /\ local[t].job = None) => DOMAIN local[t].given = {}

\* C3 as stated: a worker the scan restarted DISABLED gets no add_job call until
\* an enable command names it.
DisabledWorkerGetsNoJob ==
    [][\A p \in scan_disabled :
          p \in DOMAIN phone_workers' => phone_workers'[p].inbox = phone_workers[p].inbox]_vars

\* C3: start_tests looks at no worker's state: a fan-out that ends has called
\* add_job on every listed worker, those the scan restarted DISABLED and no
\* enable command has named since included.
DisabledWorkerStillServed ==
    \A t \in FanoutThreads :
        FanoutDone(t) =>
            \A p \in local[t].snap \cap scan_disabled :
                /\ p \in DOMAIN local[t].given
                /\ phone_workers[p].inbox # <<>>

\* C3 happens: a fan-out of a job has ended that listed a worker which the scan had
\* restarted DISABLED, and which is still in that state.
DisabledWorkerStillServedSeen ==
    \E t \in FanoutThreads :
        /\ FanoutDone(t)
        /\ local[t].job # None
        /\ \E p \in local[t].snap \cap scan_disabled :
              phone_workers[p].initial_state = DISABLED

(***************************************************************************)
(* Properties of the registry and the roster file.                         *)
(***************************************************************************)
\* The latest step was a register command (for a phone already known, if the
\* command did nothing more).
Registered == last_ops # <<>> /\ last_ops[1].op = "register_cmd"

\* C4: a register command for a phoneid that is already in the registry creates
\* and starts no worker, draws no worker number, leaves the worker object as it
\* is and does not write the roster; one worker bears the phoneid afterwards.
SecondRegisterIsNoOp ==
    [][(/\ last_ops' # <<>>
        /\ last_ops'[1].op = "register_cmd"
        /\ last_ops'[1].phone \in DOMAIN phone_workers)
       => /\ Len(last_ops') = 1
          /\ phone_workers' = phone_workers
          /\ next_worker_num' = next_worker_num
          /\ cache' = cache
          /\ {p \in DOMAIN phone_workers' :
                 phone_workers'[p].phone_cfg.phoneid = last_ops'[1].phone}
               = {last_ops'[1].phone}]_vars

\* C4 happens: a register command has just been served for a known phone.
SecondRegisterSeen ==
    /\ Registered
    /\ Len(last_ops) = 1
    /\ last_ops[1].phone \in DOMAIN phone_workers
    /\ next_worker_num > 0

\* The phoneids the roster file lists.
FilePhoneids(file) == {file.phones[i].phoneid.v : i \in 1..Len(file.phones)}

\* C5: when a register command completes, the roster file is JSON text and lists
\* exactly the phoneids of the registry.
RosterFileMatchesRegistry ==
    Registered =>
        /\ cache.exists
        /\ cache.valid
        /\ Len(cache.phones) = Cardinality(DOMAIN phone_workers)
        /\ FilePhoneids(cache) = DOMAIN phone_workers

\* C5 happens: a register command has just registered a second phone.
RosterFileMatchesRegistrySeen ==
    /\ Registered
    /\ Len(last_ops) > 1
    /\ Cardinality(DOMAIN phone_workers) = MaxPhones

\* The latest step was a start of the controller that read the roster file.
Loaded == last_ops # <<>> /\ last_ops[1].op = "read_cache"

Restart == Len(last_ops) = 4 /\ last_ops[1].op = "stop" /\ last_ops[3].op = "start"

\* C7: the scan starts a dead worker in the DISABLED state if the crash policy,
\* asked after the death is counted, reports too many crashes, and in the
\* DISCONNECTED state otherwise.
RestartStatePolicy ==
    Restart =>
        LET p == last_ops[3].phone
        IN  /\ TooManyCrashes(phone_workers[p]) => last_ops[3].arg = DISABLED
            /\ ~TooManyCrashes(phone_workers[p]) => last_ops[3].arg = DISCONNECTED

\* C7 happens: the scan has just restarted a worker DISABLED, at the death that
\* made the crashes too many.
RestartStatePolicySeen ==
    /\ Restart
    /\ last_ops[3].arg = DISABLED
    /\ phone_workers[last_ops[3].phone].crashes = CrashLimit

(***************************************************************************)
(* Properties of the pulse monitor.                                        *)
(***************************************************************************)
\* handle_message has passed a task-completed message to handle_taskcompleted.
TaskHandled ==
    pm_pc = "done" /\ message.acked /\ ~IsJobaction(monitor, message) /\ "status" \in message.keys

\* The answers of the json-rev service that give the build its comments.
Commented == {rj \in RevJsons : ~rj.found \/ rj.has_desc}

\* build_callback would be invoked for the message d.
CallsBack(d) == HandleTaskcompleted(monitor, d).result = "called"

\* C8: in handle_taskcompleted a build of repo try whose comments lack the word
\* autophone never reaches build_callback; for a build of another repo, whether
\* build_callback is invoked is the same whatever the comments say.
TryNeedsOptIn ==
    TaskHandled =>
        /\ (/\ message.build_data.repo = "try"
            /\ ~Contains(Comments(message.rev_json), Autophone)) => callbacks = <<>>
        /\ (message.build_data.repo # "try" /\ message.rev_json \in Commented) =>
              \A rj \in Commented :
                  CallsBack([message EXCEPT !.rev_json = rj]) <=> callbacks # <<>>

\* C8 happens: a try build was dropped that build_callback would have received
\* had its comments carried the word.
TryNeedsOptInSeen ==
    /\ TaskHandled
    /\ message.build_data.repo = "try"
    /\ message.rev_json.has_desc
    /\ ~Contains(message.rev_json.desc, Autophone)
    /\ callbacks = <<>>
    /\ CallsBack([message EXCEPT !.rev_json.desc = <<"x">> \o Autophone])

\* C9: in handle_taskcompleted build_callback is never invoked for a task that is
\* not buildbot's and whose tier is not 1; for a buildbot task, whether
\* build_callback is invoked is the same whatever the tier.
TierGating ==
    TaskHandled =>
        /\ (BuilderType(message.worker_type) # "buildbot" /\ message.tier # 1) =>
              callbacks = <<>>
        /\ BuilderType(message.worker_type) = "buildbot" =>
              \A t \in 1..MaxTier :
                  CallsBack([message EXCEPT !.tier = t]) <=> callbacks # <<>>

\* C9 happens: a taskcluster task of tier 2 was dropped that build_callback would
\* have received at tier 1.
TierGatingSeen ==
    /\ TaskHandled
    /\ BuilderType(message.worker_type) # "buildbot"
    /\ message.tier = 2
    /\ callbacks = <<>>
    /\ CallsBack([message EXCEPT !.tier = 1])

\* p1 is a proper prefix of p2.
ProperPrefix(p1, p2) == Len(p1) < Len(p2) /\ SubSeq(p2, 1, Len(p1)) = p1

\* Two configured platforms, the first a proper prefix of the second, which
\* occurs in the build URL of a job action that came to the platform detection.
Shadowing(p1, p2) ==
    /\ pm_local.bound
    /\ p1 \in Range(monitor.platforms)
    /\ p2 \in Range(monitor.platforms)
    /\ ProperPrefix(p1, p2)
    /\ Contains(message.build_url, p2)

\* C10 as stated: in handle_jobaction, when P1 and P2 are configured, P1 a proper
\* prefix of P2, and the build URL contains P2, the detected platform is P2.
LongerPlatformDetected ==
    \A p1, p2 \in Range(monitor.platforms) :
        Shadowing(p1, p2) => pm_local.detected_platform = p2

\* The configured platforms other than p that are not shorter than p and occur
\* in the build URL.
Rivals(p) ==
    {q \in Range(monitor.platforms) \ {p} :
        Len(q) >= Len(p) /\ Contains(message.build_url, q)}

\* C10: in handle_jobaction, when P1 and P2 are configured, P1 a proper prefix of
\* P2, and the build URL contains P2, the detected platform is never P1: it is a
\* configured platform no shorter than P2 that occurs in the URL, and it is P2
\* unless another such platform is configured.
PrefixNeverShadows ==
    \A p1, p2 \in Range(monitor.platforms) :
        Shadowing(p1, p2) =>
            /\ pm_local.detected_platform # p1
            /\ pm_local.detected_platform \in Rivals(p2) \cup {p2}
            /\ Rivals(p2) = {} => pm_local.detected_platform = p2

\* C10 happens: P2 was detected although the constructor was given its prefix P1
\* before it.
PrefixNeverShadowsSeen ==
    \E p1, p2 \in Range(monitor.platforms) :
        /\ Shadowing(p1, p2)
        /\ pm_local.detected_platform = p2
        /\ \E i, j \in 1..Len(monitor.platforms_arg) :
              i < j /\ monitor.platforms_arg[i] = p1 /\ monitor.platforms_arg[j] = p2

(***************************************************************************)
(* Properties of the command server.                                       *)
(***************************************************************************)
\* Thread c is between self.cmd_lock.acquire() and self.cmd_lock.release().
InRouteCmd(c) == pc[c] \in {"start_tests", "add_job", "release_cmd"}

\* C11: at most one operator connection is inside route_cmd's critical section
\* at any time, and it is the one that holds cmd_lock.
CommandsSerialized ==
    /\ Cardinality({c \in Conns : InRouteCmd(c)}) <= 1
    /\ \A c \in Conns : InRouteCmd(c) <=> cmd_lock = c

\* C11 happens: one connection is in the middle of a triggerjobs fan-out, inside
\* route_cmd, after another connection's command was served (its phone is in
\* the registry with a job in its inbox) and while that connection is free to
\* send its next command.
CommandsSerializedSeen ==
    \E c, d \in Conns :
        /\ c # d
        /\ pc[c] = "add_job"
        /\ local[c].todo # <<>>
        /\ pc[d] = "recv"
        /\ \E p \in DOMAIN phone_workers : phone_workers[p].inbox # <<>>

(***************************************************************************)
(* C12                                                                     *)
(***************************************************************************)
\* stop() has been called on some worker.
SomeWorkerStopped == \E i \in DOMAIN ctl.log : ctl.log[i].op = "stop"

\* C12: a register command that cannot be parsed (a field missing, a cmdport
\* that is no number) never shuts the system down: the stop flag stays unset,
\* the command server keeps serving, and no worker is stopped.
ParseErrorNeverStops ==
    ctl.cause = "register" =>
        /\ ~ctl.stop
        /\ ctl.server = "serving"
        /\ ~SomeWorkerStopped

(***************************************************************************)
(* C13                                                                     *)
(***************************************************************************)
\* C13: no single message ends the inbox loop: after a message that names a
\* phoneid that is not registered, or whose processing fails, worker_msg_loop
\* is still running.
InboxLoopSurvives == proc = "running" => pc[MainThread] # "raised"

(***************************************************************************)
(* C14                                                                     *)
(***************************************************************************)
\* C14: every pulse message the monitor has received is acknowledged, and the
\* acknowledgement comes before any handling; this holds also for a message
\* received after stop was requested.
EveryMessageAcked ==
    pm_pc = "done" => message.acked /\ Head(message.calls) = "ack"

\* C14, amended: a message received while the monitor is not stopping is
\* acknowledged first, before the handler and its callback; a message received
\* after stop was requested is neither acknowledged nor handled.
AckedFirstUnlessStopping ==
    pm_pc = "done" =>
        /\ ~monitor.stopping =>
              /\ message.acked
              /\ Head(message.calls) = "ack"
              /\ \A i \in DOMAIN message.calls : i > 1 => message.calls[i] # "ack"
              /\ callbacks # <<>> =>
                    message.calls = <<"ack", callbacks[Len(callbacks)].callback>>
        /\ monitor.stopping =>
              /\ ~message.acked
              /\ message.calls = <<>>
              /\ message.outcome = "none"
              /\ callbacks = <<>>

AckedFirstUnlessStoppingSeen ==
    /\ pm_pc = "done"
    /\ ~monitor.stopping
    /\ message.acked
    /\ callbacks # <<>>
    /\ Len(message.calls) = 2

(***************************************************************************)
(* C20                                                                     *)
(***************************************************************************)
\* C20: build_callback and jobaction_callback are always called on a new
\* thread, never on the thread that listens to the broker.
CallbacksOnNewThread ==
    \A i \in DOMAIN callbacks : callbacks[i].thread # PulseThread

(***************************************************************************)
(* C16                                                                     *)
(***************************************************************************)
\* The places in last_ops of the calls named op.
OpsAt(ops, op) == {i \in DOMAIN ops : ops[i].op = op}

TypedIdFindsWorker ==
    [][\A c \in Conns, x \in typed_ids :
         CmdPhoneVerb(c, "disable", x) =>
           /\ local'[c].response = "ok"
           /\ \E i \in DOMAIN last_ops' : last_ops'[i].op = "disable"
           /\ cache'.exists
           /\ Len(cache'.phones) = Cardinality(DOMAIN phone_workers)]_vars

(***************************************************************************)
(* C18                                                                     *)
(***************************************************************************)
\* C18: disable, enable, debug and ping: if the parameter equals the serial or
\* the phoneid of a registered worker, the verb is invoked exactly once, on
\* such a worker, the roster is written and the reply is ok; if it matches no
\* worker, the reply is 'error: phone not found', no verb is invoked and the
\* roster file is left as it was.
PhoneVerbLookup ==
    [][\A c \in Conns, verb \in PhoneVerbs, x \in PhoneParams :
         CmdPhoneVerb(c, verb, x) =>
           LET matching == {p \in DOMAIN phone_workers :
                              \/ phone_workers[p].phone_cfg.serial = x
                              \/ phone_workers[p].phone_cfg.phoneid = x}
               invoked == {i \in DOMAIN last_ops' : last_ops'[i].op \in PhoneVerbs}
           IN  IF matching # {}
               THEN /\ Cardinality(invoked) = 1
                    /\ \A i \in invoked :
                         last_ops'[i].op = verb /\ last_ops'[i].phone \in matching
                    /\ OpsAt(last_ops', "write_cache") # {}
                    /\ cache'.exists /\ cache'.valid
                    /\ Len(cache'.phones) = Cardinality(DOMAIN phone_workers)
                    /\ FilePhoneids(cache') = DOMAIN phone_workers
                    /\ local'[c].response = "ok"
               ELSE /\ invoked = {}
                    /\ cache' = cache
                    /\ local'[c].response = "error: phone not found"]_vars

\* C18 happens: with two phones registered, a disable command has found one.
PhoneVerbLookupSeen ==
    \E c \in Conns :
        /\ pc[c] = "release_cmd"
        /\ local[c].response = "ok"
        /\ \E i \in DOMAIN last_ops :
             /\ last_ops[i].op = "disable"
             /\ last_ops[i].phone \in DOMAIN phone_workers
             /\ Cardinality(DOMAIN phone_workers) = 2

(***************************************************************************)
(* C19                                                                     *)
(***************************************************************************)
\* C19: the fan-out is atomic with respect to registration: no register
\* command changes the registry while a fan-out holds worker_lock.
RegistrationOutsideFanout ==
    [][\A c \in Conns, params \in RegisterParams :
         CmdRegister(c, params) =>
           worker_lock = NoThread \/ phone_workers' = phone_workers]_vars

(***************************************************************************)
(* C15                                                                     *)
(***************************************************************************)
\* C15: stop(), reached from the stop command, SIGTERM or a keyboard
\* interrupt, sets the stop flag, shuts the command server down, calls stop()
\* on the workers and joins the server thread, in this order; and when it
\* returns, stop() has been called on every registered worker.
ShutdownStopsEveryWorker ==
    [][(~ctl.returned /\ ctl'.returned /\ ctl.cause \in {"stop_cmd"} \cup Signals) =>
         LET log == ctl'.log
         IN  /\ Len(log) >= 3
             /\ log[1].op = "set_stop"
             /\ log[2].op = "shutdown"
             /\ log[Len(log)].op = "join"
             /\ \A i \in 3..(Len(log) - 1) : log[i].op = "stop"
             /\ ctl'.stop /\ ctl'.server = "shutdown"
             /\ \A p \in DOMAIN phone_workers' :
                  \E i \in DOMAIN log : log[i] = Op("stop", p, "")]_vars

(***************************************************************************)
(* C21                                                                     *)
(***************************************************************************)
\* The payload has the three keys of a job action.
JobactionKeys == {"action", "project", "job_id"} \subseteq message.keys

\* C21: a payload with the keys action, project and job_id is handled as a job
\* action if and only if a Treeherder URL is configured, whether or not it has
\* a status key too; otherwise a payload with a status key is handled as
\* task-completed; any other payload reaches neither handler and no callback.
PayloadRouting ==
    (pm_pc = "done" /\ ~monitor.stopping) =>
        /\ message.handler = "handle_jobaction" <=>
              (JobactionKeys /\ monitor.treeherder_url)
        /\ message.handler = "handle_taskcompleted" <=>
              (~(JobactionKeys /\ monitor.treeherder_url) /\ "status" \in message.keys)
        /\ message.handler = "none" <=>
              (~(JobactionKeys /\ monitor.treeherder_url) /\ "status" \notin message.keys)
        /\ message.handler = "none" => callbacks = <<>> /\ message.outcome = "dropped"
        /\ \A i \in DOMAIN callbacks :
              callbacks[i].callback =
                 (IF message.handler = "handle_jobaction"
                  THEN "jobaction_callback" ELSE "build_callback")

\* C21 happens: a payload with all four keys has gone to the job-action handler
\* and its callback.
PayloadRoutingSeen ==
    /\ pm_pc = "done"
    /\ message.keys = RoutingKeys
    /\ message.handler = "handle_jobaction"
    /\ callbacks # <<>>

(***************************************************************************)
(* C22                                                                     *)
(***************************************************************************)
\* The drain results that are timeouts.
Timeouts == {"socket.timeout", "timed out"}

\* C22: in the listen loop a drain timeout causes no reconnect and keeps the
\* connection; any other exception releases the connection and, if stop has
\* not been requested, is followed by the backoff wait and a new connection
\* attempt; if stop has been requested, no new connection is opened after the
\* wait.
ListenReconnects ==
    [][/\ \A result \in Timeouts :
            (Drain(result) /\ ~monitor.stopping) =>
               /\ listener'.pc = "drain"
               /\ listener'.connection = "open"
               /\ listener'.opened = listener.opened
               /\ listener'.released = listener.released
       /\ ListenExcept =>
            /\ listener'.connection = "released"
            /\ ~monitor.stopping => listener'.pc = "sleep" /\ listener'.restart
            /\ monitor.stopping => listener'.pc = "finally" /\ ~listener'.restart
       /\ ListenSleep => listener'.pc = "while_restart" /\ listener'.restart
       /\ (monitor.stopping /\ listener.last = "sleep") =>
            listener'.opened = listener.opened]_vars

(***************************************************************************)
(* C23                                                                     *)
(***************************************************************************)
\* C23: in a liveness scan, a worker found not alive is stopped, has its crash
\* counter raised by exactly one, and is started, in this order; a worker found
\* alive is left untouched; the other workers are left as they were, and the
\* scan neither adds nor removes a registry entry.
ScanFrame ==
    [][ScanWorker("sent") =>
         LET p == Head(local[MainThread].todo)
             calls == [i \in DOMAIN last_ops' |-> last_ops'[i].op]
         IN  /\ DOMAIN phone_workers' = DOMAIN phone_workers
             /\ \A q \in DOMAIN phone_workers \ {p} : phone_workers'[q] = phone_workers[q]
             /\ IF phone_workers[p].alive
                THEN /\ phone_workers'[p] = phone_workers[p]
                     /\ last_ops' = <<>>
                ELSE /\ SubSeq(calls, 1, 3) = <<"stop", "add_crash", "start">>
                     /\ \A i \in DOMAIN last_ops' :
                          i <= 3 => last_ops'[i].phone = p
                     /\ \A i \in DOMAIN calls :
                          i > 3 => calls[i] \notin {"stop", "add_crash", "start"}
                     /\ phone_workers'[p].crashes = phone_workers[p].crashes + 1
                     /\ phone_workers'[p].alive
                     /\ phone_workers'[p].phone_cfg = phone_workers[p].phone_cfg]_vars

\* C23 happens: with two phones registered, the scan has restarted one that
\* had died before.
ScanFrameSeen ==
    /\ Cardinality(DOMAIN phone_workers) = 2
    /\ OpsAt(last_ops, "add_crash") # {}
    /\ \E p \in DOMAIN phone_workers : phone_workers[p].crashes = 2 /\ phone_workers[p].alive

(***************************************************************************)
(* C24                                                                     *)
(***************************************************************************)
\* C24: a failure of the mailer, of any kind, while the dead-worker
\* notification is sent is swallowed: the worker has been restarted, the scan
\* goes on to the workers it has not visited yet, and the inbox loop keeps
\* running.
MailFailureSwallowed ==
    [][\A mail \in MailResults \ {"sent"} :
         (ScanWorker(mail) /\ ~phone_workers[Head(local[MainThread].todo)].alive) =>
            /\ phone_workers'[Head(local[MainThread].todo)].alive
            /\ pc'[MainThread] = "scan"
            /\ local'[MainThread].todo = Tail(local[MainThread].todo)]_vars

(***************************************************************************)
(* C25                                                                     *)
(***************************************************************************)
\* C25: build_job removes the temporary directory it created on every exit
\* path: success, a corrupt archive, and an archive whose application.ini is
\* missing or lacks the App section or one of the keys.
TmpdirRemoved ==
    \A t \in Threads : local[t].tmpdir \in {"none", "removed"}

(***************************************************************************)
(* C30                                                                     *)
(***************************************************************************)
\* C30: cmd_lock is released at the end of every route_cmd call, also when the
\* command's action has failed: a thread whose route_cmd call has ended in an
\* exception does not hold cmd_lock.
CmdLockReleasedOnFailure ==
    \A c \in Conns : pc[c] = "raised" => cmd_lock # c

(***************************************************************************)
(* C26                                                                     *)
(***************************************************************************)
\* C26: a job-action message leads to at most one jobaction_callback call, and
\* to one only if its project is among the configured trees, its Treeherder
\* job was found, the job's platform_option is among the configured build
\* types, the four private-build keys are all there, and the build metadata
\* was resolved; a message that fails one of these is dropped.
JobactionGates ==
    (pm_pc = "done" /\ message.handler = "handle_jobaction") =>
        /\ Len(callbacks) <= 1
        /\ \A i \in DOMAIN callbacks : callbacks[i].callback = "jobaction_callback"
        /\ callbacks # <<>> =>
              /\ message.project \in monitor.trees
              /\ message.job.found
              /\ message.job.platform_option \in monitor.buildtypes
              /\ {"build_url", "config_file", "chunk", "builder_type"} \subseteq message.titles
              /\ message.build_data.found
        /\ ~(/\ message.project \in monitor.trees
             /\ message.job.found
             /\ message.job.platform_option \in monitor.buildtypes
             /\ {"build_url", "config_file", "chunk", "builder_type"} \subseteq message.titles
             /\ message.build_data.found) =>
              callbacks = <<>> /\ message.outcome = "dropped"

\* C26 happens: a job action that passes every gate has been called back.
JobactionGatesSeen ==
    /\ pm_pc = "done"
    /\ message.handler = "handle_jobaction"
    /\ Len(callbacks) = 1
    /\ callbacks[1].data.project = message.project

(***************************************************************************)
(* C27                                                                     *)
(***************************************************************************)
\* The places of the artifact list that hold the artifact of the given name.
ArtifactsNamed(name) == {i \in DOMAIN message.artifacts : message.artifacts[i] = name}

\* C27: a task without a target.apk artifact never reaches build_callback; and
\* when build_callback is invoked, app_data maps org.mozilla.fennec to the URL
\* of target.apk, and maps org.mozilla.geckoview_example to the URL of
\* geckoview_example.apk exactly when that artifact is listed, before or after
\* target.apk.
AppDataOfArtifacts ==
    TaskHandled =>
        LET target == <<"public/build/", "target.apk">>
            geckoview == <<"public/build/", "geckoview_example.apk">>
        IN  /\ ArtifactsNamed(target) = {} => callbacks = <<>>
            /\ \A i \in DOMAIN callbacks :
                 LET app_data == callbacks[i].data.app_data
                 IN  /\ "org.mozilla.fennec" \in DOMAIN app_data
                     /\ app_data["org.mozilla.fennec"] =
                          <<"https://queue.taskcluster.net/v1/task/runs/artifacts/">> \o target
                     /\ "org.mozilla.geckoview_example" \in DOMAIN app_data
                          <=> ArtifactsNamed(geckoview) # {}
                     /\ "org.mozilla.geckoview_example" \in DOMAIN app_data =>
                          app_data["org.mozilla.geckoview_example"] =
                            <<"https://queue.taskcluster.net/v1/task/runs/artifacts/">>
                               \o geckoview
                     /\ DOMAIN app_data \subseteq
                          {"org.mozilla.fennec", "org.mozilla.geckoview_example"}

\* C27 happens: build_callback was invoked for a task that lists target.apk
\* before geckoview_example.apk.
AppDataOfArtifactsSeen ==
    /\ TaskHandled
    /\ callbacks # <<>>
    /\ Len(message.artifacts) = 2
    /\ message.artifacts[1] = <<"public/build/", "target.apk">>
    /\ DOMAIN callbacks[1].data.app_data =
         {"org.mozilla.fennec", "org.mozilla.geckoview_example"}

(***************************************************************************)
(* C28                                                                     *)
(***************************************************************************)
\* The text without the blanks at its ends.
RECURSIVE Trimmed(_)
Trimmed(s) ==
    IF s = <<>> THEN s
    ELSE IF Head(s) = " " THEN Trimmed(Tail(s))
    ELSE IF s[Len(s)] = " " THEN Trimmed(SubSeq(s, 1, Len(s) - 1))
    ELSE s

\* The complete lines of a text, trimmed, in order: line is what has been read
\* of the current line.
RECURSIVE CompleteLines(_, _)
CompleteLines(text, line) ==
    IF text = <<>> THEN <<>>
    ELSE IF Head(text) = "\n" THEN <<Trimmed(line)>> \o CompleteLines(Tail(text), <<>>)
    ELSE CompleteLines(Tail(text), Append(line, Head(text)))

\* The lines up to the first quit or exit, the empty ones left out.
RECURSIVE Commands(_)
Commands(lines) ==
    IF lines = <<>> THEN <<>>
    ELSE IF Head(lines) \in {<<"quit">>, <<"exit">>} THEN <<>>
    ELSE IF Head(lines) = <<>> THEN Commands(Tail(lines))
    ELSE <<Head(lines)>> \o Commands(Tail(lines))

\* p is a prefix of q.
IsPrefix(p, q) == Len(p) <= Len(q) /\ SubSeq(q, 1, Len(p)) = p

\* C28: on a connection every complete non-empty line other than quit and exit
\* is routed exactly once and answered by exactly one reply, in the order of
\* the lines; an incomplete line is not routed; quit or exit closes the
\* connection, and the lines received behind it are never routed.
LinesRoutedOnce ==
    \A c \in Conns :
        LET commands == Commands(CompleteLines(local[c].received, <<>>))
        IN  /\ IsPrefix(local[c].routed, commands)
            /\ Len(local[c].sent) = Len(local[c].routed)
            /\ pc[c] \in {"recv", "closed"} => local[c].routed = commands

\* C28 happens: a connection was closed by quit with a routed line before it
\* and a complete line behind it.
LinesRoutedOnceSeen ==
    \E c \in Conns :
        /\ pc[c] = "closed"
        /\ local[c].routed = << <<"log">> >>
        /\ local[c].sent = <<"ok">>
        /\ local[c].buffer # <<>>
        /\ HasLine(local[c].buffer)

(***************************************************************************)
(* C29                                                                     *)
(***************************************************************************)
\* C29: once shutdown has begun the liveness scan neither counts a worker that
\* shutdown has stopped as crashed nor restarts it: a worker on which stop()
\* has called stop() has no crash counted and is not running afterwards.
ScanLeavesShutdownStops ==
    \A p \in DOMAIN phone_workers :
        Op("stop", p, "") \in Range(ctl.log) =>
            /\ ~phone_workers[p].alive
            /\ phone_workers[p].crashes = 0

(***************************************************************************)
(* C31                                                                     *)
(***************************************************************************)
\* C31: worker_lock is released at the end of every fan-out, also of one in
\* which add_job has failed: a thread whose start_tests call has ended in an
\* exception does not hold worker_lock.
WorkerLockReleasedOnFailure ==
    \A t \in FanoutThreads : pc[t] = "raised" => worker_lock # t

(***************************************************************************)
(* C32                                                                     *)
(***************************************************************************)
\* C32: an iteration of the inbox loop whose poll has returned no message (an
\* empty poll, an interrupted system call or any other I/O error) routes
\* nothing to process_msg: no message of an earlier iteration is routed again.
FailedPollRoutesNothing ==
    (last_ops # <<>> /\ last_ops[1].op = "IOError") =>
        \A i \in DOMAIN last_ops : last_ops[i].op # "process_msg"

(***************************************************************************)
(* C33                                                                     *)
(***************************************************************************)
\* Job a was given to the worker before job b.
Before(inbox, a, b) ==
    \E i, j \in DOMAIN inbox : i < j /\ inbox[i] = a /\ inbox[j] = b

\* C33: when fan-outs from the pulse thread and from a triggerjobs command run
\* at the same time, the add_job calls of one do not interleave with those of
\* the other: at most one thread is calling add_job, and no two workers have
\* received two jobs in opposite orders.
SameJobOrder ==
    /\ Cardinality({t \in FanoutThreads : pc[t] = "add_job"}) <= 1
    /\ \A p, q \in DOMAIN phone_workers :
          \A i, j \in DOMAIN phone_workers[p].inbox :
              i < j => ~Before(phone_workers[q].inbox,
                               phone_workers[p].inbox[j], phone_workers[p].inbox[i])

\* C33 happens: one thread is in the middle of its fan-out, having called
\* add_job on one worker and not yet on another, while another thread waits in
\* start_tests with a different job.
SameJobOrderSeen ==
    \E t, u \in FanoutThreads :
        /\ pc[t] = "add_job"
        /\ DOMAIN local[t].given # {}
        /\ local[t].todo # <<>>
        /\ pc[u] = "start_tests"
        /\ local[u].job # local[t].job
        /\ \E p \in DOMAIN local[t].given : phone_workers[p].inbox = <<local[t].job>>

(***************************************************************************)
(* C34                                                                     *)
(***************************************************************************)
\* C34: after stop() has set the stop flag of a started monitor the listen
\* thread ends, whether it is draining or has just failed with a connection
\* error (so that the join in stop() returns); when it has ended its connection
\* is released; and while the flag is set no message reaches a callback.
StopEndsListener ==
    /\ monitor.stopping ~> listener.pc = "returned"
    /\ [](listener.pc = "returned" =>
            (monitor.stopping /\ listener.connection = "released"))
    /\ [][monitor.stopping => callbacks' = callbacks]_vars

\* C34 happens: the listen thread has ended after a callback was made, a
\* connection was lost and another was opened, and the last message it took was
\* not handled because the flag was set.
StopEndsListenerSeen ==
    /\ listener.pc = "returned"
    /\ listener.opened > 1
    /\ callbacks # <<>>
    /\ message # NoMessage
    /\ ~message.acked

(***************************************************************************)
(* C35                                                                     *)
(***************************************************************************)
\* The message with a push-comment page that carries the word autophone.
OptedIn(d) ==
    [d EXCEPT !.rev_json = [found |-> TRUE, has_desc |-> TRUE, desc |-> Autophone]]

\* C35: when the push-comment page of a build cannot be fetched, a try build is
\* dropped, and a build of another repo that passes the other gates is given to
\* build_callback, once, with the comments `unknown`.
UnfetchedComments ==
    (TaskHandled /\ ~message.rev_json.found) =>
        /\ message.build_data.repo = "try" => callbacks = <<>>
        /\ (message.build_data.repo # "try" /\ CallsBack(OptedIn(message))) =>
              /\ Len(callbacks) = 1
              /\ callbacks[1].callback = "build_callback"
              /\ callbacks[1].data.comments = <<"u", "n", "k", "n", "o", "w", "n">>

\* C35 happens: a build of mozilla-central whose push-comment page could not be
\* fetched was given to build_callback, where the same build of try would have
\* been dropped.
UnfetchedCommentsSeen ==
    /\ TaskHandled
    /\ ~message.rev_json.found
    /\ message.build_data.repo = "mozilla-central"
    /\ callbacks # <<>>
    /\ ~CallsBack([message EXCEPT !.build_data.repo = "try"])
    /\ CallsBack(OptedIn([message EXCEPT !.build_data.repo = "try"]))

====
